---- MODULE Spec2Model ----
(***************************************************************************)
(* Model of the demo2apk build service: the BullMQ build queue            *)
(* (services/queue.ts), the worker (worker.ts, processBuildJob and the    *)
(* retention sweeper), the two build pipelines (html-builder.ts,          *)
(* react-builder.ts), the storage helpers (services/storage.ts) and the   *)
(* status / download / delete routes (routes/status.ts).                  *)
(*                                                                         *)
(* File names are sequences of one-character strings, so that the name    *)
(* arithmetic of the code (sanitizeDirName, "<appName>--<taskId>.apk",    *)
(* "<safeAppName>-build") is computed and collisions are found, not       *)
(* assumed.                                                                *)
(***************************************************************************)
EXTENDS Integers, Sequences, FiniteSets, TLC

\* ------------------------------------------------------------------ bounds
\* Number of task identifiers admission can hand out in one run.
MaxTasks == 2
\* Number of steps of other processes that can fall between two consecutive
\* awaits of one API handler.
MaxInterleave == 1
\* the task whose status the remembering poller follows
PollTask == 1
\* RATE_LIMIT_MAX, the requests a key may make on a route per window
RateLimitMax == 1
\* the longest task id of the artifact names the download route is given
MaxIdLen == 2
\* the longest app name generateAppId is given
MaxNameLen == 3
\* the last index getJobPosition asks getWaiting for (100 in the code), scaled
\* to the length the waiting list reaches with MaxTasks jobs
ScanEnd == 0
\* the longest html document, in pieces, and the number of times the
\* preparation is applied to one document
MaxHtmlLen == 3
MaxPasses == 2
\* how many times fixViteProject runs on one project, and how many config
\* files a project root holds
MaxFixRuns == 2
MaxConfigFiles == 2

\* ------------------------------------------------------- program constants
\* createBuildWorker: concurrency = WORKER_CONCURRENCY || '2'
WORKER_CONCURRENCY == 2
\* getBuildQueue: defaultJobOptions.attempts
JobAttempts == 1
\* worker: FILE_RETENTION_HOURS || '2'
FILE_RETENTION_HOURS == 2

TaskIds == 1..MaxTasks
Slots == 1..WORKER_CONCURRENCY

\* --------------------------------------------------------------- file names
ApkExt == <<".", "a", "p", "k">>
BuildSuffix == <<"-", "b", "u", "i", "l", "d">>
ProjectName == <<"p", "r", "o", "j", "e", "c", "t">>
IdChars == <<"1", "2", "3", "4", "5">>

\* nanoid(12): the token of task t (one symbol of the id alphabet per task)
TaskIdStr(t) == <<IdChars[t]>>

\* the characters the regular expression class \w matches in the model alphabet
WordChars == {"D", "E", "a", "b", "d", "e", "i", "j", "k", "l", "o", "p", "r",
              "c", "t", "u", "1", "2", "3", "4", "5", "7", "_"}

\* app names a client can submit (already trimmed by the route)
AppNames == {<<"D">>, <<"E", "!">>}

\* .replace(/[^\w.-]/g, '_')
ReplaceUnsafe(name) ==
    [i \in 1..Len(name) |->
        IF name[i] \in WordChars \cup {".", "-"} THEN name[i] ELSE "_"]

\* .replace(/_+/g, '_')
RECURSIVE CollapseUnderscores(_)
CollapseUnderscores(name) ==
    IF Len(name) <= 1 THEN name
    ELSE IF name[1] = "_" /\ name[2] = "_" THEN CollapseUnderscores(Tail(name))
    ELSE <<name[1]>> \o CollapseUnderscores(Tail(name))

\* .replace(/^_|_$/g, '')
TrimUnderscores(name) ==
    LET a == IF Len(name) > 0 /\ name[1] = "_" THEN Tail(name) ELSE name
    IN  IF Len(a) > 0 /\ a[Len(a)] = "_" THEN SubSeq(a, 1, Len(a) - 1) ELSE a

sanitizeDirName(name) ==
    LET r == TrimUnderscores(CollapseUnderscores(ReplaceUnsafe(name)))
    IN  IF r = <<>> THEN ProjectName ELSE r

\* buildHtmlToApk: workDir = <outputDir>/<safeAppName>
HtmlWorkDir(appName) == sanitizeDirName(appName)
\* buildReactToApk: workDir = <outputDir>/<safeAppName>-build
ZipWorkDir(appName) == sanitizeDirName(appName) \o BuildSuffix
\* buildHtmlToApk and the mock build: apkDest = <outputDir>/<appName>.apk
HtmlApkName(appName) == appName \o ApkExt
\* buildReactToApk: apkFileName = <appName>--<taskId>.apk
ZipApkName(appName, t) == appName \o <<"-", "-">> \o TaskIdStr(t) \o ApkExt
\* cleanupTask: buildDir = <buildsDir>/<appName>
CleanupBuildDir(appName) == appName

\* String.prototype.toLowerCase over the letters of the model's names
toLowerCase(name) ==
    [i \in DOMAIN name |->
        CASE name[i] = "D" -> "d"
          [] name[i] = "E" -> "e"
          [] name[i] = "H" -> "h"
          [] name[i] = "T" -> "t"
          [] name[i] = "M" -> "m"
          [] name[i] = "L" -> "l"
          [] name[i] = "Z" -> "z"
          [] name[i] = "I" -> "i"
          [] name[i] = "P" -> "p"
          [] OTHER -> name[i]]

\* ------------------------------------------------------ package identifiers
\* the characters the classes [a-z] and [a-z0-9] match in the model alphabet
LowerLetters == {"a", "b", "c", "d", "e", "i", "j", "k", "l", "o", "p", "r",
                 "t", "u"}
LowerAlnum == LowerLetters \cup {"1", "2", "3", "4", "5", "7"}

\* .replace(/[^a-z0-9]+/g, '.')
RECURSIVE ReplaceNonAlnumRuns(_)
ReplaceNonAlnumRuns(name) ==
    IF name = <<>> THEN <<>>
    ELSE IF name[1] \in LowerAlnum
    THEN <<name[1]>> \o ReplaceNonAlnumRuns(Tail(name))
    ELSE IF Len(name) > 1 /\ name[2] \notin LowerAlnum
    THEN ReplaceNonAlnumRuns(Tail(name))
    ELSE <<".">> \o ReplaceNonAlnumRuns(Tail(name))

\* .replace(/\.+/g, '.')
RECURSIVE CollapseDots(_)
CollapseDots(name) ==
    IF Len(name) <= 1 THEN name
    ELSE IF name[1] = "." /\ name[2] = "." THEN CollapseDots(Tail(name))
    ELSE <<name[1]>> \o CollapseDots(Tail(name))

\* .replace(/^\.+|\.+$/g, '')
RECURSIVE TrimDots(_)
TrimDots(name) ==
    IF name # <<>> /\ name[1] = "." THEN TrimDots(Tail(name))
    ELSE IF name # <<>> /\ name[Len(name)] = "."
    THEN TrimDots(SubSeq(name, 1, Len(name) - 1))
    ELSE name

FixPartsUnchanged(name, atStart) == name

\* parts.map: a segment that does not start with a letter gets an 'a' in front
RECURSIVE FixParts(_, _)
FixParts(name, atStart) ==
    IF name = <<>> THEN <<>>
    ELSE (IF atStart /\ name[1] \notin LowerLetters THEN <<"a">> ELSE <<>>)
            \o <<name[1]>> \o FixParts(Tail(name), name[1] = ".")

ComVibecoding ==
    <<"c", "o", "m", ".", "v", "i", "b", "e", "c", "o", "d", "i", "n", "g", ".">>
ExampleReactApp ==
    <<"c", "o", "m", ".", "e", "x", "a", "m", "p", "l", "e", ".",
      "r", "e", "a", "c", "t", "a", "p", "p">>

\* generateAppId
generateAppId(appName) ==
    LET sanitized ==
            TrimDots(CollapseDots(ReplaceNonAlnumRuns(toLowerCase(appName))))
    IN  ComVibecoding
            \o FixParts(IF sanitized = <<>> THEN <<"a", "p", "p">> ELSE sanitized,
                        TRUE)

\* the appId a route puts into the job data: the zip route replaces a missing
\* one by 'com.example.reactapp', the html route leaves it undefined
NoAppId == <<>>
RouteAppId(type, appId) ==
    IF type = "zip" /\ appId = NoAppId THEN ExampleReactApp ELSE appId

\* the appId a builder takes from its options: the default of the
\* destructuring applies when the job data carries none
BuilderAppId(type, appName, appId) ==
    IF appId # NoAppId THEN appId
    ELSE IF type = "html" THEN generateAppId(appName)
    ELSE ExampleReactApp

\* ------------------------------------------------------- prepareHtmlForCordova
\* an html document is a sequence of pieces: an opening head tag in small or
\* capital letters, the closing body tag, the three tags the function adds,
\* and a text that has the word viewport in it
HeadTag == "<head>"
HeadTagCaps == "<HEAD>"
BodyEnd == "</body>"
ViewportMeta == "<meta name=viewport>"
CspMeta == "<meta http-equiv=Content-Security-Policy>"
CordovaScript == "<script src=cordova.js>"
ViewportText == "viewport"
Pieces == {HeadTag, HeadTagCaps, BodyEnd, ViewportMeta, CspMeta, CordovaScript,
           ViewportText}
NoPage == [html |-> <<>>, prepared |-> 0]

\* the pieces the words 'viewport', 'Content-Security-Policy', 'cordova.js'
\* occur in
Mentioning(word) ==
    CASE word = "viewport" -> {ViewportMeta, ViewportText}
      [] word = "Content-Security-Policy" -> {CspMeta}
      [] word = "cordova.js" -> {CordovaScript}

IncludesNever(html, word) == FALSE

\* html.includes(word)
Includes(html, word) == \E i \in 1..Len(html) : html[i] \in Mentioning(word)

\* html.replace(/<head([^>]*)>/i, '<head$1>\n' + tag): the first opening head
\* tag, in any case, is rewritten in small letters and the tag put after it
RECURSIVE AfterHead(_, _)
AfterHead(html, tag) ==
    IF html = <<>> THEN <<>>
    ELSE IF html[1] \in {HeadTag, HeadTagCaps}
    THEN <<HeadTag, tag>> \o Tail(html)
    ELSE <<html[1]>> \o AfterHead(Tail(html), tag)

\* html.replace('</body>', tag + '\n</body>'): before the first closing body tag
RECURSIVE BeforeBodyEnd(_, _)
BeforeBodyEnd(html, tag) ==
    IF html = <<>> THEN <<>>
    ELSE IF html[1] = BodyEnd THEN <<tag>> \o html
    ELSE <<html[1]>> \o BeforeBodyEnd(Tail(html), tag)

prepareHtmlForCordova(htmlContent) ==
    LET h1 == IF ~Includes(htmlContent, "viewport")
              THEN AfterHead(htmlContent, ViewportMeta) ELSE htmlContent
        h2 == IF ~Includes(h1, "Content-Security-Policy")
              THEN AfterHead(h1, CspMeta) ELSE h1
    IN  IF ~Includes(h2, "cordova.js")
        THEN BeforeBodyEnd(h2, CordovaScript) ELSE h2

\* ------------------------------------------------------------------- state
\* ------------------------------------------------- the progress heartbeat
\* where buildReactToApk wraps a subcommand in a heartbeat: the band, and the
\* percent of the real message that follows the subcommand
InstallSite == [start |-> 25, end |-> 38, next |-> 40, declared |-> TRUE]
BuildSite == [start |-> 40, end |-> 53, next |-> 55, declared |-> TRUE]
GradleSite == [start |-> 80, end |-> 93, next |-> 95, declared |-> TRUE]
\* bands the pipeline does not declare: a wide one and the narrowest
OtherSites ==
    {[start |-> 0, end |-> 25, next |-> 25, declared |-> FALSE],
     [start |-> 10, end |-> 11, next |-> 11, declared |-> FALSE]}
Sites == {InstallSite, BuildSite, GradleSite} \cup OtherSites

\* Math.max(1, Math.floor((endPercent - startPercent) / 10))
increment(startPercent, endPercent) ==
    IF (endPercent - startPercent) \div 10 > 1
    THEN (endPercent - startPercent) \div 10 ELSE 1

NoBeat ==
    [site |-> [start |-> 0, end |-> 0, next |-> 0, declared |-> FALSE],
     currentPercent |-> 0, timer |-> FALSE, ticks |-> 0, sent |-> <<>>,
     phase |-> "idle"]

MayTickUpToEnd(b) == b.currentPercent < b.site.end

\* the interval callback's condition: currentPercent < endPercent - increment
MayTick(b) ==
    b.currentPercent < b.site.end - increment(b.site.start, b.site.end)

\* the interval callback
tick(b) ==
    IF MayTick(b)
    THEN [b EXCEPT !.currentPercent = @ + increment(b.site.start, b.site.end),
                   !.ticks = @ + 1,
                   !.sent = Append(@, b.currentPercent
                                      + increment(b.site.start, b.site.end))]
    ELSE b

stopLeavesTimer(b) == b

\* stop: clearInterval(timer); timer = null
stop(b) == [b EXCEPT !.timer = FALSE]

\* ---------------------------------------------------- the extracted project
ViteConfigs == {"vite.config.js", "vite.config.ts", "vite.config.mts", "vite.config.mjs"}
NextConfigs == {"next.config.js", "next.config.ts", "next.config.mjs"}

\* detectProjectType: the first test that holds decides
detectProjectType(root, reactScripts) ==
    IF "vite.config.js" \in root \/ "vite.config.ts" \in root
    THEN [type |-> "vite", buildDir |-> "dist"]
    ELSE IF "next.config.js" \in root \/ "next.config.ts" \in root
            \/ "next.config.mjs" \in root
    THEN [type |-> "nextjs", buildDir |-> "out"]
    ELSE IF reactScripts THEN [type |-> "cra", buildDir |-> "build"]
    ELSE [type |-> "unknown", buildDir |-> "dist"]

\* findViteConfig: the config file of the project, if it has one
findViteConfig(root) == root \cap ViteConfigs # {}

\* The text of a vite config, by what the repair looks at: which of the three
\* patterns of addBaseToViteConfig matches first ("return" = /return\s*\{/,
\* "defineConfig" = /defineConfig\s*\(\s*\{/, "exportDefault" =
\* /export\s+default\s*\{/, "other" = none), whether it includes "base:" or
\* "base :", and whether it includes 'legacy'
ConfigShapes == {"return", "defineConfig", "exportDefault", "other"}
ConfigTexts == [shape : ConfigShapes, base : BOOLEAN, legacy : BOOLEAN]

\* addBaseToViteConfig: the first pattern that matches gets "base: './'," put
\* after it; a text none matches comes back as it was
addBaseToViteConfig(config) ==
    IF config.shape # "other" THEN [config EXCEPT !.base = TRUE] ELSE config

\* addLegacyPluginToViteConfig: a text with 'legacy' comes back as it was;
\* else the import of '@vitejs/plugin-legacy' goes after the last import or to
\* the top, and legacy(...) into the plugins array if there is one
addLegacyPluginToViteConfig(config) ==
    IF config.legacy THEN config ELSE [config EXCEPT !.legacy = TRUE]

NoResult == [fixed |-> FALSE, changes |-> <<>>, written |-> {}]
NoProject ==
    [root |-> {}, reactScripts |-> FALSE,
     viteConfig |-> [shape |-> "other", base |-> FALSE, legacy |-> FALSE],
     hasLegacyPlugin |-> FALSE, detected |-> [type |-> "none", buildDir |-> ""],
     repairStep |-> FALSE, runs |-> 0, result |-> NoResult]

\* step 1 of fixViteProject: !includes("base:") && !includes("base :")
LacksBase(viteConfig) == ~viteConfig.base

\* fixViteProject, steps 1 to 3 and the write-back, on a project whose
\* index.html has no index.css reference, that uses no Tailwind classes and
\* none of the IMPLICIT_DEPENDENCIES
fixViteProject(p) ==
    IF ~findViteConfig(p.root) THEN [p EXCEPT !.result = NoResult]
    ELSE
    LET c0 == p.viteConfig
        c1 == IF LacksBase(c0) THEN addBaseToViteConfig(c0) ELSE c0
        ch1 == IF LacksBase(c0) THEN <<"Added base">> ELSE <<>>
        enable == p.hasLegacyPlugin /\ ~c1.legacy
        c2 == IF enable THEN addLegacyPluginToViteConfig(c1) ELSE c1
        ch2 == IF enable THEN Append(ch1, "Enabled @vitejs/plugin-legacy") ELSE ch1
        c3 == IF ~p.hasLegacyPlugin THEN addLegacyPluginToViteConfig(c2) ELSE c2
        ch3 == IF ~p.hasLegacyPlugin
               THEN Append(ch2, "Added @vitejs/plugin-legacy and terser") ELSE ch2
        written == (IF ~p.hasLegacyPlugin THEN {"package.json"} ELSE {})
                   \cup (IF c3 # c0 THEN {"vite.config"} ELSE {})
    IN  [p EXCEPT !.viteConfig = c3,
                  !.hasLegacyPlugin = TRUE,
                  !.result = [fixed |-> Len(ch3) > 0, changes |-> ch3,
                              written |-> written]]

VARIABLES
    jobs,       \* queue backend: the job record of every task id
    waiting,    \* queue backend: the waiting list, in processing order
    nextId,     \* admission: the next task id nanoid hands out
    uploads,    \* uploads root: the task ids whose <uploads>/<taskId>/ exists
    builds,     \* builds root: entry name -> file or directory
    slots,      \* worker: what each of the concurrency slots is running
    req,        \* API: the request whose handler is between two awaits
    resp,       \* API: the response just sent (consumed by the client at once)
    seen,       \* status poller: last percent it saw per task while active
    mockBuild,  \* worker environment: MOCK_BUILD
    quota,      \* rate limiter: requests counted per route and client key in
                \* the current window
    page,       \* an html document and the number of times
                \* prepareHtmlForCordova has been applied to it
    worker,     \* worker process: running, closing (shutdown awaits
                \* worker.close()) or exited
    beat,       \* one progress heartbeat around one subcommand, with the
                \* percents the pipeline has sent since the stage began
    project     \* an extracted project: its root files, manifest and vite
                \* config, what was detected, and the last repair's result

vars ==
    <<jobs, waiting, nextId, uploads, builds, slots, req, resp, seen, mockBuild,
      quota, page, worker, beat, project>>

Undefined == -1

\* Job<BuildJobData, BuildJobResult>: data, progress, returnvalue, failedReason
NoJob ==
    [state |-> "absent", type |-> "none", appName |-> <<>>, percent |-> Undefined,
     rvSet |-> FALSE, success |-> FALSE, apkPath |-> <<>>, error |-> "",
     failedReason |-> "", attemptsMade |-> 0, appId |-> NoAppId, age |-> 0]

NewJob(type, appName) ==
    [NoJob EXCEPT !.state = "waiting", !.type = type, !.appName = appName,
                  !.appId = RouteAppId(type, NoAppId)]

\* an entry of the builds root: an artifact file (apk = the task whose web
\* content it packages) or a workspace directory (proj = the task whose project
\* skeleton it holds, web = the task whose web content, apk = the built apk);
\* age = now - mtime in hours, counted up to one hour past the retention window
FileEntryWithOldTime(content) ==
    [kind |-> "file", proj |-> 0, web |-> 0, apk |-> content,
     age |-> FILE_RETENTION_HOURS + 1, appId |-> NoAppId]

FileEntry(content) ==
    [kind |-> "file", proj |-> 0, web |-> 0, apk |-> content, age |-> 0,
     appId |-> NoAppId]
EmptyDir ==
    [kind |-> "dir", proj |-> 0, web |-> 0, apk |-> 0, age |-> 0, appId |-> NoAppId]

\* fs.pathExists, fs.remove, and writing one entry
PathExists(fs, name) == name \in DOMAIN fs
FsRemove(fs, name) == [n \in (DOMAIN fs) \ {name} |-> fs[n]]
FsPut(fs, name, entry) ==
    [n \in (DOMAIN fs) \cup {name} |-> IF n = name THEN entry ELSE fs[n]]

IdleSlot == [task |-> 0, pc |-> 0]
IdleReq == [op |-> "idle", task |-> 0, pc |-> "", snap |-> NoJob, steps |-> 0, position |-> 0]

\* where a request comes from: its X-Forwarded-For hops and its peer address
Origins ==
    {[xff |-> <<>>, ip |-> "p1"],
     [xff |-> <<"c1", "p1">>, ip |-> "p1"],
     [xff |-> <<"c1">>, ip |-> "p2"]}

\* keyGenerator: the first X-Forwarded-For hop, else request.ip
keyGenerator(o) == IF o.xff # <<>> THEN o.xff[1] ELSE o.ip
ClientKeys == {keyGenerator(o) : o \in Origins}

\* the `file` part of a multipart upload: absent, or a file with its name
NoFile == [present |-> FALSE, filename |-> <<>>]
UploadNames ==
    {<<"a", ".", "h", "t", "m", "l">>, <<"a", ".", "H", "T", "M">>,
     <<"a", ".", "z", "i", "p">>, <<"a", ".", "Z", "i", "P">>,
     <<"a", ".", "t", "x", "t">>, <<"h", "t", "m", "l">>}
Files == {NoFile} \cup {[present |-> TRUE, filename |-> n] : n \in UploadNames}

\* what a response says about the request it answers
NoRequest == [route |-> "", client |-> "", bearer |-> FALSE, file |-> NoFile]
NoResp ==
    [op |-> "none", task |-> 0, code |-> 0, status |-> "", percent |-> Undefined,
     hasResult |-> FALSE, success |-> FALSE, downloadUrl |-> FALSE, error |-> "",
     queuePosition |-> 0, queueTotal |-> 0, content |-> 0, prev |-> Undefined,
     retryAfter |-> FALSE, request |-> NoRequest, filename |-> <<>>]

\* ------------------------------------------------------------ rate limiter
\* the routes of the API; a route given config.rateLimit gets a store of its
\* own from the plugin (store.child, namespaced by method and url), so the
\* plugin counts per route and per key
Routes == {"html", "zip", "status", "download", "delete", "health", "api"}
NoQuota == [r \in Routes |-> [k \in ClientKeys |-> 0]]

LimitedGlobal(route) == TRUE

\* global: false, and rateLimitConfig spread into the options of the two POST
\* routes only: the plugin's onRequest hook runs for these and no other route
Limited(route) == route \in {"html", "zip"}

\* the hook: the request is counted, and refused once the count of its key
\* on its route exceeds max
Throttled(route, o) ==
    Limited(route) /\ quota[route][keyGenerator(o)] >= RateLimitMax
Charge(route, o) ==
    IF Limited(route) /\ ~Throttled(route, o)
    THEN [quota EXCEPT ![route][keyGenerator(o)] = @ + 1]
    ELSE quota

\* errorResponseBuilder: statusCode 429, retryAfter: context.after
TooManyRequests(route, o, bearer) ==
    [NoResp EXCEPT !.op = route, !.code = 429, !.retryAfter = TRUE,
                   !.request = [NoRequest EXCEPT !.route = route,
                                                 !.client = keyGenerator(o),
                                                 !.bearer = bearer]]

\* a response is observed at the instant it is sent: nothing else moves
\* between the handler's reply and the client reading it
Quiet == resp = NoResp

\* a step of the worker, of admission or of the sweeper while a handler is
\* suspended at an await
MayInterleave == Quiet /\ (req.op = "idle" \/ req.steps < MaxInterleave)
Interleave == IF req.op = "idle" THEN req ELSE [req EXCEPT !.steps = @ + 1]

Init ==
    /\ jobs = [t \in TaskIds |-> NoJob]
    /\ waiting = <<>>
    /\ nextId = 1
    /\ uploads = {}
    /\ builds = <<>>
    /\ slots = [s \in Slots |-> IdleSlot]
    /\ req = IdleReq
    /\ resp = NoResp
    /\ seen = [t \in TaskIds |-> Undefined]
    /\ mockBuild \in BOOLEAN
    /\ quota = NoQuota
    /\ page = NoPage
    /\ worker = "running"
    /\ beat = NoBeat
    /\ project = NoProject

\* ------------------------------------------------------------ the pipelines
\* A stage is one progress write followed by the work up to the next write.
\* kind: check   = the upload exists, then the environment check
\*       workdir = fs.remove + fs.ensureDir of the workspace, then the command
\*                 that fills it (cordova create / unzip)
\*       cmd     = an external command run with cwd inside the workspace
\*       fsop    = reads and writes of project files in the workspace
\*       note    = a progress write alone (pct Undefined: a message sent
\*                 without a percent, as injectIcon and ensureGradleWrapper do)
\*       web     = the step that puts the web content into the workspace
\*       gradle  = ./gradlew assembleDebug
\*       export  = copy of app-debug.apk to the builds root
\*       done    = 'Build completed!' and the return of the result
\* next: the stages that can follow (a choice where the project decides)
St(name, kind, pct, next) == [name |-> name, kind |-> kind, pct |-> pct, next |-> next]

\* buildHtmlToApk
HtmlStages == <<
    St("env", "check", 5, {2}),
    St("create", "workdir", 25, {3}),
    St("pnpmadd", "cmd", 32, {4}),
    St("platform", "cmd", 38, {5}),
    St("icon", "note", 42, {6}),
    St("iconmsg", "note", Undefined, {7}),
    St("www", "web", 45, {8}),
    St("prepare", "cmd", 55, {9}),
    St("gradlew", "note", 60, {10}),
    St("gradlewmsg", "cmd", Undefined, {11}),
    St("gradle", "gradle", 70, {12}),
    St("export", "export", 95, {13}),
    St("done", "done", 100, {}) >>

\* buildReactToApk
ZipStages == <<
    St("env", "check", 5, {2}),
    St("extract", "workdir", 10, {3}),
    St("analyze", "fsop", 15, {4}),
    St("detect", "fsop", 18, {5, 6, 8, 9}),
    St("nextjs", "fsop", 20, {8, 9}),
    St("vite", "fsop", 22, {7, 8, 9}),
    St("vitefixes", "fsop", 24, {8, 9}),
    St("capconfigremoved", "fsop", 23, {9}),
    St("install", "cmd", 25, {10}),
    St("build", "web", 40, {11}),
    St("capinstall", "cmd", 55, {12}),
    St("capconfig", "fsop", 60, {13}),
    St("capadd", "cmd", 65, {14}),
    St("capsync", "cmd", 70, {15}),
    St("icon", "note", 75, {16}),
    St("iconmsg", "note", Undefined, {17}),
    St("gradle", "gradle", 80, {18}),
    St("export", "export", 95, {19}),
    St("done", "done", 100, {}) >>

\* processBuildJob, MOCK_BUILD branch
MockStages == <<
    St("mock10", "sleep", 10, {2}),
    St("mock30", "sleep", 30, {3}),
    St("mock60", "sleep", 60, {4}),
    St("mock90", "sleep", 90, {5}),
    St("mockcopy", "mockcopy", 100, {}) >>

\* processBuildJob, the final else branch
UnknownStages == << St("unknown", "unknown", Undefined, {}) >>

BuildTypes == {"html", "zip"}
AllTypes == BuildTypes \cup {"apk"}

\* processBuildJob: which code runs for a job
StagesOf(job) ==
    IF mockBuild THEN MockStages
    ELSE IF job.type = "html" THEN HtmlStages
    ELSE IF job.type = "zip" THEN ZipStages
    ELSE UnknownStages

\* the workspace directory and the artifact name a build uses
WorkDirOf(job) ==
    IF job.type = "html" THEN HtmlWorkDir(job.appName) ELSE ZipWorkDir(job.appName)
ApkNameOf(job, t) ==
    IF mockBuild \/ job.type = "html" THEN HtmlApkName(job.appName)
    ELSE ZipApkName(job.appName, t)

\* processBuildJob.onProgress: percent ?? 0
onProgress(percent) == IF percent = Undefined THEN 0 ELSE percent

\* -------------------------------------------------------------- the worker
CurTask(s) == slots[s].task
CurJob(s) == jobs[CurTask(s)]
CurStage(s) == StagesOf(CurJob(s))[slots[s].pc]
AtKind(s, kind) == MayInterleave /\ CurTask(s) # 0 /\ CurStage(s).kind = kind

\* job.updateProgress({message, percent})
WithProgress(job, pct) == [job EXCEPT !.percent = onProgress(pct)]

CompletedStaysActive(job, success, apkPath, error) == job

\* the processor returned: BullMQ moves the job to completed with the value
Completed(job, success, apkPath, error) ==
    [job EXCEPT !.state = "completed", !.rvSet = TRUE, !.success = success,
                !.apkPath = apkPath, !.error = error]

AfterThrowRetry(job, reason) ==
    IF job.attemptsMade < JobAttempts + 1
    THEN [job EXCEPT !.state = "waiting"]
    ELSE [job EXCEPT !.state = "failed", !.failedReason = reason]

\* the processor threw: BullMQ retries while attemptsMade < attempts, else
\* moves the job to failed with the reason
AfterThrow(job, reason) ==
    IF job.attemptsMade < JobAttempts
    THEN [job EXCEPT !.state = "waiting"]
    ELSE [job EXCEPT !.state = "failed", !.failedReason = reason]

\* the workspace holds a project a command can run in
Usable(fs, ws) == PathExists(fs, ws) /\ fs[ws].kind = "dir" /\ fs[ws].proj # 0

Proceed(s, newJob, newBuilds) ==
    /\ jobs' = [jobs EXCEPT ![CurTask(s)] = newJob]
    /\ builds' = newBuilds
    /\ \E nxt \in CurStage(s).next : slots' = [slots EXCEPT ![s].pc = nxt]
    /\ req' = Interleave
    /\ UNCHANGED <<waiting, nextId, uploads, resp, seen, mockBuild, quota, page, worker, beat, project>>

Return(s, newJob, newBuilds) ==
    /\ jobs' = [jobs EXCEPT ![CurTask(s)] = newJob]
    /\ builds' = newBuilds
    /\ slots' = [slots EXCEPT ![s] = IdleSlot]
    /\ req' = Interleave
    /\ UNCHANGED <<waiting, nextId, uploads, resp, seen, mockBuild, quota, page, worker, beat, project>>

FailureAsSuccess(s, job, error, newBuilds) ==
    Return(s, Completed(job, TRUE, ApkNameOf(job, CurTask(s)), ""), newBuilds)

\* return {success: false, error}: by the stage itself, or by the catch block
\* around the pipeline
Failure(s, job, error, newBuilds) ==
    Return(s, Completed(job, FALSE, <<>>, error), newBuilds)

LeaseWithoutDequeue(s) ==
    /\ MayInterleave
    /\ slots[s] = IdleSlot
    /\ waiting # <<>>
    /\ jobs' = [jobs EXCEPT ![Head(waiting)].state = "active"]
    /\ slots' = [slots EXCEPT ![s] = [task |-> Head(waiting), pc |-> 1]]
    /\ req' = Interleave
    /\ UNCHANGED <<waiting, nextId, uploads, builds, resp, seen, mockBuild, quota, page, worker, beat, project>>

\* Worker: with fewer than `concurrency` jobs running, the head of the waiting
\* list is moved to active (the slots are interchangeable: the lowest free one
\* takes it)
Lease(s) ==
    /\ MayInterleave
    /\ worker = "running"
    /\ slots[s] = IdleSlot
    /\ \A other \in Slots : other < s => slots[other] # IdleSlot
    /\ waiting # <<>>
    /\ LET t == Head(waiting) IN
        /\ jobs' = [jobs EXCEPT ![t].state = "active",
                                ![t].attemptsMade = @ + 1]
        /\ slots' = [slots EXCEPT ![s] = [task |-> t, pc |-> 1]]
    /\ waiting' = Tail(waiting)
    /\ req' = Interleave
    /\ UNCHANGED <<nextId, uploads, builds, resp, seen, mockBuild, quota, page, worker, beat, project>>

\* pathExists(htmlPath / zipPath), 'Checking build environment...', the SDK
CheckUpload(s) ==
    /\ AtKind(s, "check")
    /\ IF CurTask(s) \notin uploads
       THEN Failure(s, CurJob(s), "file not found", builds)
       ELSE LET j == WithProgress(CurJob(s), CurStage(s).pct) IN
            \/ Proceed(s, j, builds)
            \/ Failure(s, j, "Android SDK not found", builds)

\* fs.remove(workDir); fs.ensureDir(workDir); cordova create / unzip
PrepareWorkspace(s) ==
    /\ AtKind(s, "workdir")
    /\ LET ws == WorkDirOf(CurJob(s))
           j == WithProgress(CurJob(s), CurStage(s).pct) IN
        \/ Proceed(s, j, FsPut(builds, ws,
                    [EmptyDir EXCEPT !.proj = CurTask(s),
                                     !.appId = BuilderAppId(j.type, j.appName, j.appId)]))
        \/ Failure(s, j, "command failed", FsPut(builds, ws, EmptyDir))

\* an external command with cwd in the workspace; it fails when the workspace
\* or its project is gone, and may fail by itself
RunCommand(s) ==
    /\ AtKind(s, "cmd")
    /\ LET ws == WorkDirOf(CurJob(s))
           j == WithProgress(CurJob(s), CurStage(s).pct) IN
        \/ Usable(builds, ws) /\ Proceed(s, j, builds)
        \/ Usable(builds, ws) /\ Failure(s, j, "command failed", builds)
        \/ ~Usable(builds, ws) /\ Failure(s, j, "workspace missing", builds)

\* file operations on the project in the workspace (package.json lookup,
\* detectProjectType, configureNextjsExport, fixViteProject, writeFile)
FileOps(s) ==
    /\ AtKind(s, "fsop")
    /\ LET ws == WorkDirOf(CurJob(s))
           j == WithProgress(CurJob(s), CurStage(s).pct) IN
        IF Usable(builds, ws) THEN Proceed(s, j, builds)
        ELSE Failure(s, j, "workspace missing", builds)

\* a progress write with nothing that can fail before the next one
Note(s) ==
    /\ AtKind(s, "note")
    /\ Proceed(s, WithProgress(CurJob(s), CurStage(s).pct), builds)

\* html: emptyDir(www), copy of the upload directory, prepareHtmlForCordova
\* zip:  npm run build on the project found in the workspace
WebContent(s) ==
    /\ AtKind(s, "web")
    /\ LET ws == WorkDirOf(CurJob(s))
           t == CurTask(s)
           j == WithProgress(CurJob(s), CurStage(s).pct)
           dir == IF PathExists(builds, ws) THEN builds[ws] ELSE EmptyDir IN
        IF CurJob(s).type = "html"
        THEN IF t \in uploads
             THEN Proceed(s, j, FsPut(builds, ws, [dir EXCEPT !.web = t, !.age = 0]))
             ELSE Failure(s, j, "file not found", builds)
        ELSE \/ Usable(builds, ws)
                /\ Proceed(s, j, FsPut(builds, ws, [dir EXCEPT !.web = dir.proj]))
             \/ Usable(builds, ws) /\ Failure(s, j, "command failed", builds)
             \/ ~Usable(builds, ws) /\ Failure(s, j, "workspace missing", builds)

\* ./gradlew assembleDebug: packages the web content found in the workspace
Gradle(s) ==
    /\ AtKind(s, "gradle")
    /\ LET ws == WorkDirOf(CurJob(s))
           j == WithProgress(CurJob(s), CurStage(s).pct) IN
        LET ready == Usable(builds, ws) /\ builds[ws].web # 0 IN
        \/ ready /\ Proceed(s, j, FsPut(builds, ws, [builds[ws] EXCEPT !.apk = builds[ws].web]))
        \/ ready /\ Failure(s, j, "command failed", builds)
        \/ ~ready /\ Failure(s, j, "workspace missing", builds)

\* 'Exporting APK...', pathExists(apkSource), fs.copy(apkSource, apkDest)
ExportApk(s) ==
    /\ AtKind(s, "export")
    /\ LET ws == WorkDirOf(CurJob(s))
           dest == ApkNameOf(CurJob(s), CurTask(s))
           j == WithProgress(CurJob(s), CurStage(s).pct) IN
        IF ~(PathExists(builds, ws) /\ builds[ws].apk # 0)
        THEN Failure(s, j, "APK build failed - output file not found", builds)
        ELSE \/ Proceed(s, j, FsPut(builds, dest, FileEntry(builds[ws].apk)))
             \/ Failure(s, j, "copy failed", builds)

\* 'Build completed!' and return {success: true, apkPath, duration}
Finish(s) ==
    /\ AtKind(s, "done")
    /\ Return(s, Completed(WithProgress(CurJob(s), CurStage(s).pct), TRUE,
                           ApkNameOf(CurJob(s), CurTask(s)), ""), builds)

\* MOCK_BUILD: await onProgress(...); await setTimeout
MockSleep(s) ==
    /\ AtKind(s, "sleep")
    /\ Proceed(s, WithProgress(CurJob(s), CurStage(s).pct), builds)

\* MOCK_BUILD: fs.copy / fs.writeFile of the fake APK (the same bytes for
\* every task: content 0, no task's web content; outside any try), then
\* 'Build completed!' and the return; an fs error leaves processBuildJob
MockCopy(s) ==
    /\ AtKind(s, "mockcopy")
    /\ LET t == CurTask(s)
           dest == ApkNameOf(CurJob(s), t) IN
        \/ Return(s, Completed(WithProgress(CurJob(s), CurStage(s).pct), TRUE, dest, ""),
                  FsPut(builds, dest, FileEntry(0)))
        \/ LET j == AfterThrow(CurJob(s), "copy failed") IN
            /\ jobs' = [jobs EXCEPT ![t] = j]
            /\ waiting' = IF j.state = "waiting" THEN Append(waiting, t) ELSE waiting
            /\ slots' = [slots EXCEPT ![s] = IdleSlot]
            /\ req' = Interleave
            /\ UNCHANGED <<nextId, uploads, builds, resp, seen, mockBuild, quota, page, worker, beat, project>>

\* a build type that is neither html nor zip
UnknownKind(s) ==
    /\ AtKind(s, "unknown")
    /\ Failure(s, CurJob(s), "Unknown build type", builds)

\* ------------------------------------------------------------ the queue API
\* queue.add(name, data, {jobId}): a job id that is already in the queue is
\* left alone, whatever its state
QueueAddOverwrite(js, t, type, appName) ==
    [js EXCEPT ![t] = NewJob(type, appName)]

QueueAdd(js, t, type, appName) ==
    IF js[t].state # "absent" THEN js
    ELSE [js EXCEPT ![t] = NewJob(type, appName)]

\* addBuildJob called directly, as the queue tests do: again with the id of a
\* job that is in the queue, or with a new id and a build type no route sends
AddBuildJob(t, type, appName) ==
    /\ MayInterleave
    /\ \/ jobs[t].state # "absent"
       \/ t = nextId /\ type \notin BuildTypes
    /\ jobs' = QueueAdd(jobs, t, type, appName)
    /\ waiting' = IF jobs'[t] # jobs[t] THEN Append(waiting, t) ELSE waiting
    /\ nextId' = IF t = nextId THEN nextId + 1 ELSE nextId
    /\ resp' = [NoResp EXCEPT !.op = "add", !.task = t]
    /\ req' = Interleave
    /\ UNCHANGED <<uploads, builds, slots, seen, mockBuild, quota, page, worker, beat, project>>

\* POST /api/build/html and /api/build/zip: nanoid, saveUploadedFile,
\* addBuildJob, reply {taskId, status: 'pending'}
PostBuild(type, appName) ==
    /\ MayInterleave
    /\ nextId <= MaxTasks
    /\ uploads' = uploads \cup {nextId}
    /\ jobs' = QueueAdd(jobs, nextId, type, appName)
    /\ waiting' = Append(waiting, nextId)
    /\ nextId' = nextId + 1
    /\ resp' = [NoResp EXCEPT !.op = "post", !.task = nextId, !.code = 200,
                              !.status = "pending"]
    /\ req' = Interleave
    /\ UNCHANGED <<builds, slots, seen, mockBuild, quota, page, worker, beat, project>>

\* String.prototype.endsWith
endsWith(name, suffix) ==
    /\ Len(name) >= Len(suffix)
    /\ SubSeq(name, Len(name) - Len(suffix) + 1, Len(name)) = suffix

ExtensionOkCaseSensitive(type, name) ==
    IF type = "html"
    THEN endsWith(name, <<".", "h", "t", "m", "l">>)
         \/ endsWith(name, <<".", "h", "t", "m">>)
    ELSE endsWith(name, <<".", "z", "i", "p">>)

\* the routes' file-type validation: filename.toLowerCase().endsWith(...)
ExtensionOk(type, name) ==
    IF type = "html"
    THEN endsWith(toLowerCase(name), <<".", "h", "t", "m", "l">>)
         \/ endsWith(toLowerCase(name), <<".", "h", "t", "m">>)
    ELSE endsWith(toLowerCase(name), <<".", "z", "i", "p">>)

\* POST /api/build/html and /api/build/zip with rate limiting enabled: the
\* plugin's hook, then the handler: 400 without a file part or with a wrong
\* extension, else saveUploadedFile, addBuildJob, reply
PostUpload(type, o, bearer, file, appName) ==
    LET rq == [route |-> type, client |-> keyGenerator(o), bearer |-> bearer,
               file |-> file]
    IN  /\ MayInterleave
        /\ nextId <= MaxTasks
        /\ quota' = Charge(type, o)
        /\ req' = Interleave
        /\ IF Throttled(type, o)
           THEN /\ resp' = TooManyRequests(type, o, bearer)
                /\ UNCHANGED <<uploads, jobs, waiting, nextId>>
           ELSE IF ~file.present \/ ~ExtensionOk(type, file.filename)
           THEN /\ resp' = [NoResp EXCEPT !.op = "post", !.code = 400,
                                          !.request = rq]
                /\ UNCHANGED <<uploads, jobs, waiting, nextId>>
           ELSE /\ uploads' = uploads \cup {nextId}
                /\ jobs' = QueueAdd(jobs, nextId, type, appName)
                /\ waiting' = Append(waiting, nextId)
                /\ nextId' = nextId + 1
                /\ resp' = [NoResp EXCEPT !.op = "post", !.task = nextId,
                                          !.code = 200, !.status = "pending",
                                          !.request = rq]
        /\ UNCHANGED <<builds, slots, seen, mockBuild, page, worker, beat, project>>

\* the window of a key on a route runs out: its count starts again
WindowExpires(route, key) ==
    /\ MayInterleave
    /\ quota[route][key] > 0
    /\ quota' = [quota EXCEPT ![route][key] = 0]
    /\ req' = Interleave
    /\ UNCHANGED <<jobs, waiting, nextId, uploads, builds, slots, resp, seen, mockBuild, page, worker, beat, project>>

\* GET /health and GET /api: a constant answer
GetInfo(route) ==
    /\ Quiet
    /\ req = IdleReq
    /\ \E o \in Origins :
        /\ quota' = Charge(route, o)
        /\ resp' = IF Throttled(route, o) THEN TooManyRequests(route, o, FALSE)
                   ELSE [NoResp EXCEPT !.op = route, !.code = 200]
    /\ UNCHANGED <<jobs, waiting, nextId, uploads, builds, slots, req, seen, mockBuild, page, worker, beat, project>>

\* queue.getWaiting(start, end): the waiting jobs in processing order, from
\* the 0-based index start to the index end, both included
getWaiting(start, end) ==
    SubSeq(waiting, start + 1, IF end + 1 < Len(waiting) THEN end + 1 ELSE Len(waiting))

\* getJobPosition: 1-based index among getWaiting(0, ScanEnd), 0 when not there
RECURSIVE IndexOf(_, _, _)
IndexOf(list, t, i) ==
    IF i > Len(list) THEN 0
    ELSE IF list[i] = t THEN i
    ELSE IndexOf(list, t, i + 1)
getJobPosition(t) == IndexOf(getWaiting(0, ScanEnd), t, 1)

\* getQueueStats: waiting + active
ActiveCount == Cardinality({t \in TaskIds : jobs[t].state = "active"})
QueueTotal == Len(waiting) + ActiveCount

\* getJobStatus: `job` was read by getJob, `state` by the later job.getState()
\* ('unknown' when the job is gone by then: the default branch)
getJobStatus(t, job, state) ==
    LET base == [status |-> "pending", percent |-> Undefined, hasResult |-> FALSE,
                 success |-> FALSE, apkPath |-> <<>>, resultError |-> "",
                 error |-> "", queuePosition |-> 0, queueTotal |-> 0]
    IN  CASE state = "completed" ->
                [base EXCEPT !.status = "completed", !.percent = job.percent,
                             !.hasResult = job.rvSet, !.success = job.success,
                             !.apkPath = job.apkPath, !.resultError = job.error]
          [] state = "failed" ->
                [base EXCEPT !.status = "failed", !.percent = job.percent,
                             !.error = job.failedReason]
          [] state = "active" ->
                [base EXCEPT !.status = "active", !.percent = job.percent]
          [] state = "waiting" ->
                [base EXCEPT !.queuePosition =
                                 IF getJobPosition(t) = 0 THEN 1 ELSE getJobPosition(t),
                             !.queueTotal = QueueTotal]
          [] OTHER ->
                [base EXCEPT !.queuePosition = 1, !.queueTotal = QueueTotal]

\* GET /:taskId/status: the body built from getJobStatus's answer
StatusResponse(t, js) ==
    LET failedBuild == js.status = "completed" /\ js.hasResult /\ ~js.success
        artifact == js.status = "completed" /\ js.hasResult /\ js.success
                    /\ js.apkPath # <<>>
    IN  [NoResp EXCEPT
            !.op = "status", !.task = t, !.code = 200,
            !.status = IF failedBuild THEN "failed" ELSE js.status,
            !.percent = js.percent,
            !.hasResult = js.status = "completed" /\ js.hasResult,
            !.success = js.status = "completed" /\ js.hasResult /\ js.success,
            !.downloadUrl = artifact,
            !.error = IF js.status = "failed" THEN js.error
                      ELSE IF js.status = "completed" /\ js.hasResult /\ ~artifact
                      THEN js.resultError ELSE "",
            !.queuePosition = js.queuePosition,
            !.queueTotal = js.queueTotal]

\* GET /:taskId/download: the reply decided from getJobStatus's answer and
\* apkExists(apkPath)
\* the characters the class [a-zA-Z0-9] matches in the model alphabet
AlnumChars == WordChars \ {"_"}

\* filename.match(/^(.+)--[a-zA-Z0-9]+\.apk$/) with group 1 of length n
MatchesAt(name, n) ==
    /\ n >= 1
    /\ Len(name) >= n + 2 + 1 + Len(ApkExt)
    /\ SubSeq(name, n + 1, n + 2) = <<"-", "-">>
    /\ \A i \in (n + 3)..(Len(name) - Len(ApkExt)) : name[i] \in AlnumChars
    /\ SubSeq(name, Len(name) - Len(ApkExt) + 1, Len(name)) = ApkExt

\* the download route's filename: group 1 of the match (the quantifier is
\* greedy: the longest) followed by .apk, or the base name when nothing matches
DownloadName(name) ==
    LET ns == {n \in 1..Len(name) : MatchesAt(name, n)}
    IN  IF ns = {} THEN name
        ELSE SubSeq(name, 1, CHOOSE n \in ns : \A m \in ns : m <= n) \o ApkExt

DownloadResponse(t, js) ==
    LET r == [NoResp EXCEPT !.op = "download", !.task = t] IN
    IF js.status # "completed" THEN [r EXCEPT !.code = 400, !.status = js.status]
    ELSE IF ~(js.hasResult /\ js.success) \/ js.apkPath = <<>>
    THEN [r EXCEPT !.code = 400, !.status = "failed"]
    ELSE IF ~PathExists(builds, js.apkPath) THEN [r EXCEPT !.code = 404]
    ELSE [r EXCEPT !.code = 200, !.content = builds[js.apkPath].apk,
                   !.filename = DownloadName(js.apkPath)]

\* getJobStatus up to its first await: getJob (404 when there is no job)
BeginRead(op, t) ==
    /\ Quiet
    /\ req = IdleReq
    /\ \E o \in Origins :
        /\ quota' = Charge(op, o)
        /\ IF Throttled(op, o)
           THEN /\ resp' = TooManyRequests(op, o, FALSE)
                /\ req' = req
           ELSE IF jobs[t].state = "absent"
           THEN /\ resp' = [NoResp EXCEPT !.op = op, !.task = t, !.code = 404]
                /\ req' = req
           ELSE /\ req' = [op |-> op, task |-> t, pc |-> "getState",
                             snap |-> jobs[t], steps |-> 0, position |-> 0]
                /\ resp' = resp
    /\ UNCHANGED <<jobs, waiting, nextId, uploads, builds, slots, seen, mockBuild, page, worker, beat, project>>

\* the state the later job.getState() reads
LiveState(t) == IF jobs[t].state = "absent" THEN "unknown" ELSE jobs[t].state

\* GET status: job.getState() and the reply
StatusRespond ==
    /\ Quiet
    /\ req.op = "status"
    /\ req.pc = "getState"
    /\ resp' = [StatusResponse(req.task, getJobStatus(req.task, req.snap, LiveState(req.task)))
                    EXCEPT !.prev = seen[req.task]]
    /\ req' = IdleReq
    /\ UNCHANGED <<jobs, waiting, nextId, uploads, builds, slots, seen, mockBuild, quota, page, worker, beat, project>>

\* GET download: job.getState(), apkExists and the reply
DownloadRespond ==
    /\ Quiet
    /\ req.op = "download"
    /\ resp' = DownloadResponse(req.task, getJobStatus(req.task, req.snap, LiveState(req.task)))
    /\ req' = IdleReq
    /\ UNCHANGED <<jobs, waiting, nextId, uploads, builds, slots, seen, mockBuild, quota, page, worker, beat, project>>

DeleteBeginAnyState(t) ==
    /\ Quiet
    /\ req = IdleReq
    /\ IF jobs[t].state = "absent"
       THEN /\ resp' = [NoResp EXCEPT !.op = "delete", !.task = t, !.code = 404]
            /\ req' = req
       ELSE /\ req' = [op |-> "delete", task |-> t, pc |-> "removeJob", snap |-> jobs[t],
                         steps |-> 0, position |-> 0]
            /\ resp' = resp
    /\ UNCHANGED <<jobs, waiting, nextId, uploads, builds, slots, seen, mockBuild, quota, page, worker, beat, project>>

\* DELETE /:taskId up to removeJob: getJob, job.getState()
DeleteBegin(t) ==
    /\ Quiet
    /\ req = IdleReq
    /\ \E o \in Origins :
        /\ quota' = Charge("delete", o)
        /\ IF Throttled("delete", o)
           THEN /\ resp' = TooManyRequests("delete", o, FALSE)
                /\ req' = req
           ELSE IF jobs[t].state = "absent"
           THEN /\ resp' = [NoResp EXCEPT !.op = "delete", !.task = t, !.code = 404]
                /\ req' = req
           ELSE IF jobs[t].state = "active"
           THEN /\ resp' = [NoResp EXCEPT !.op = "delete", !.task = t, !.code = 400]
                /\ req' = req
           ELSE /\ req' = [op |-> "delete", task |-> t, pc |-> "removeJob",
                             snap |-> jobs[t], steps |-> 0, position |-> 0]
                /\ resp' = resp
    /\ UNCHANGED <<jobs, waiting, nextId, uploads, builds, slots, seen, mockBuild, page, worker, beat, project>>

\* removeJob: false when the job is gone or active, else job.remove()
RemoveJobOk(t) == jobs[t].state \notin {"absent", "active"}
RemoveFrom(list, t) == SelectSeq(list, LAMBDA x : x # t)

\* DELETE continued: removeJob, and 500 when it returns false
DeleteRemove ==
    /\ Quiet
    /\ req.op = "delete"
    /\ req.pc = "removeJob"
    /\ IF RemoveJobOk(req.task)
       THEN /\ jobs' = [jobs EXCEPT ![req.task] = NoJob]
            /\ waiting' = RemoveFrom(waiting, req.task)
            /\ req' = [req EXCEPT !.pc = "cleanup", !.steps = 0]
            /\ resp' = resp
       ELSE /\ resp' = [NoResp EXCEPT !.op = "delete", !.task = req.task, !.code = 500]
            /\ req' = IdleReq
            /\ UNCHANGED <<jobs, waiting>>
    /\ UNCHANGED <<nextId, uploads, builds, slots, seen, mockBuild, quota, page, worker, beat, project>>

\* cleanupTask: remove <uploads>/<taskId> and <builds>/<appName>
cleanupTask(fs, appName) ==
    IF PathExists(fs, CleanupBuildDir(appName))
    THEN FsRemove(fs, CleanupBuildDir(appName)) ELSE fs

\* DELETE continued: cleanupTask and the reply
DeleteCleanup ==
    /\ Quiet
    /\ req.op = "delete"
    /\ req.pc = "cleanup"
    /\ uploads' = uploads \ {req.task}
    /\ builds' = cleanupTask(builds, req.snap.appName)
    /\ resp' = [NoResp EXCEPT !.op = "delete", !.task = req.task, !.code = 200]
    /\ req' = IdleReq
    /\ UNCHANGED <<jobs, waiting, nextId, slots, seen, mockBuild, quota, page, worker, beat, project>>

\* the client takes the response
Deliver ==
    /\ resp # NoResp
    /\ resp' = NoResp
    /\ UNCHANGED <<jobs, waiting, nextId, uploads, builds, slots, req, seen, mockBuild, quota, page, worker, beat, project>>

\* a status poller takes the response and remembers the percent of the task
\* it is following, while that task is reported active
PollDeliver ==
    /\ resp # NoResp
    /\ resp' = NoResp
    /\ seen' = IF resp.op # "status" THEN seen
               ELSE [t \in TaskIds |->
                        IF t = resp.task /\ resp.status = "active"
                        THEN resp.percent ELSE Undefined]
    /\ UNCHANGED <<jobs, waiting, nextId, uploads, builds, slots, req, mockBuild, quota, page, worker, beat, project>>

\* ------------------------------------------------------------- the sweeper
\* the clock moves on by `hours`: every entry of the builds root is that much
\* older
Aged(fs, hours) ==
    [n \in DOMAIN fs |->
        [fs[n] EXCEPT !.age = IF @ + hours > FILE_RETENTION_HOURS
                               THEN FILE_RETENTION_HOURS + 1 ELSE @ + hours]]

\* and every job's createdAt is that much further back (age = now -
\* createdAt in hours, counted up to one hour past the retention window)
AgedJobs(js, hours) ==
    [t \in DOMAIN js |->
        IF js[t].state = "absent" THEN js[t]
        ELSE [js[t] EXCEPT !.age = IF @ + hours > FILE_RETENTION_HOURS
                                   THEN FILE_RETENTION_HOURS + 1 ELSE @ + hours]]

\* GET status: expiresAt = createdAt + retentionHours; whether that instant
\* has come
Expired(job) == job.age >= FILE_RETENTION_HOURS

\* more than FILE_RETENTION_HOURS pass: every entry now on disk is older
\* than the retention window
TimePasses ==
    /\ MayInterleave
    /\ \E n \in DOMAIN builds : builds[n].age <= FILE_RETENTION_HOURS
    /\ builds' = Aged(builds, FILE_RETENTION_HOURS + 1)
    /\ jobs' = AgedJobs(jobs, FILE_RETENTION_HOURS + 1)
    /\ req' = Interleave
    /\ UNCHANGED <<waiting, nextId, uploads, slots, resp, seen, mockBuild, quota, page, worker, beat, project>>

\* one hour passes
HourPasses ==
    /\ MayInterleave
    /\ \E n \in DOMAIN builds : builds[n].age <= FILE_RETENTION_HOURS
    /\ builds' = Aged(builds, 1)
    /\ jobs' = AgedJobs(jobs, 1)
    /\ req' = Interleave
    /\ UNCHANGED <<waiting, nextId, uploads, slots, resp, seen, mockBuild, quota, page, worker, beat, project>>

SweepKeepsUnderAge(fs) == {n \in DOMAIN fs : fs[n].age < FILE_RETENTION_HOURS}

\* cleanupOldBuilds: an entry of the builds root goes when age > retentionMs
SweepKeeps(fs) == {n \in DOMAIN fs : ~(fs[n].age > FILE_RETENTION_HOURS)}
cleanupOldBuilds ==
    /\ MayInterleave
    /\ \E n \in DOMAIN builds : builds[n].age > FILE_RETENTION_HOURS
    /\ builds' = [n \in SweepKeeps(builds) |-> builds[n]]
    /\ req' = Interleave
    /\ UNCHANGED <<jobs, waiting, nextId, uploads, slots, resp, seen, mockBuild, quota, page, worker, beat, project>>

\* the function applied to the document once more
Prepare ==
    /\ page.prepared < MaxPasses
    /\ page' = [html |-> prepareHtmlForCordova(page.html),
                prepared |-> page.prepared + 1]
    /\ UNCHANGED <<jobs, waiting, nextId, uploads, builds, slots, req, resp, seen, mockBuild, quota, worker, beat, project>>

\* SIGTERM or SIGINT: shutdown starts and awaits worker.close(); a signal
\* that comes while it waits starts shutdown again, on the same close
Signal ==
    /\ MayInterleave
    /\ worker = "running"
    /\ worker' = "closing"
    /\ req' = Interleave
    /\ UNCHANGED <<jobs, waiting, nextId, uploads, builds, slots, resp, seen, mockBuild, quota, page, beat, project>>

CloseAtOnce == TRUE

\* worker.close() resolves when the jobs the worker is processing have ended
WhenCurrentJobsFinished == \A s \in Slots : slots[s] = IdleSlot

\* shutdown goes on: redis.disconnect(), process.exit(0)
Exit ==
    /\ MayInterleave
    /\ worker = "closing"
    /\ WhenCurrentJobsFinished
    /\ worker' = "exited"
    /\ req' = Interleave
    /\ UNCHANGED <<jobs, waiting, nextId, uploads, builds, slots, resp, seen, mockBuild, quota, page, beat, project>>

\* ------------------------------------------- the upload handler, by await
\* what the handler awaits after the multipart parts are read, in this order:
\* saveUploadedFile, addBuildJob, and the reply
EnqueueFirst == <<"enqueue", "save", "reply">>

AdmissionOrder == <<"save", "enqueue", "reply">>

\* what the handler does next, and the request after it did it
Awaits(what) ==
    /\ Quiet
    /\ req.op = "post"
    /\ what = IF req.pc = "received" THEN AdmissionOrder[1]
              ELSE AdmissionOrder[(CHOOSE i \in 1..2 : AdmissionOrder[i] = req.pc) + 1]
Advance(what) ==
    IF what = AdmissionOrder[3] THEN IdleReq ELSE [req EXCEPT !.pc = what]

\* POST /api/build/html or /zip: taskId = nanoid(12), the parts are read, the
\* file is there and its extension is right
ReceiveUpload(type, appName) ==
    /\ Quiet
    /\ req = IdleReq
    /\ nextId <= MaxTasks
    /\ req' = [IdleReq EXCEPT !.op = "post", !.task = nextId, !.pc = "received",
                              !.snap = NewJob(type, appName)]
    /\ nextId' = nextId + 1
    /\ UNCHANGED <<jobs, waiting, uploads, builds, slots, resp, seen, mockBuild, quota, page, worker, beat, project>>

\* await saveUploadedFile(...): <uploads>/<taskId>/<filename> is written
SaveUpload ==
    /\ Awaits("save")
    /\ uploads' = uploads \cup {req.task}
    /\ req' = Advance("save")
    /\ UNCHANGED <<jobs, waiting, nextId, builds, slots, resp, seen, mockBuild, quota, page, worker, beat, project>>

\* saveUploadedFile throws (the disk is full): the catch block replies 500
SaveFails ==
    /\ Awaits("save")
    /\ resp' = [NoResp EXCEPT !.op = "post", !.task = req.task, !.code = 500]
    /\ req' = IdleReq
    /\ UNCHANGED <<jobs, waiting, nextId, uploads, builds, slots, seen, mockBuild, quota, page, worker, beat, project>>

\* await addBuildJob(config.redisUrl, jobData)
Enqueue ==
    /\ Awaits("enqueue")
    /\ jobs' = QueueAdd(jobs, req.task, req.snap.type, req.snap.appName)
    /\ waiting' = IF jobs'[req.task] # jobs[req.task]
                  THEN Append(waiting, req.task) ELSE waiting
    /\ req' = Advance("enqueue")
    /\ UNCHANGED <<nextId, uploads, builds, slots, resp, seen, mockBuild, quota, page, worker, beat, project>>

\* return {taskId, status: 'pending', statusUrl, downloadUrl}
Reply ==
    /\ Awaits("reply")
    /\ resp' = [NoResp EXCEPT !.op = "post", !.task = req.task, !.code = 200,
                              !.status = "pending"]
    /\ req' = Advance("reply")
    /\ UNCHANGED <<jobs, waiting, nextId, uploads, builds, slots, seen, mockBuild, quota, page, worker, beat, project>>

\* ------------------------------------------- a subcommand under a heartbeat
\* onProgress(message, start); createProgressHeartbeat(...).start(); the
\* subcommand begins
StartHeartbeat(site) ==
    /\ beat.phase = "idle"
    /\ beat' = [NoBeat EXCEPT !.site = site, !.currentPercent = site.start,
                              !.timer = TRUE, !.sent = <<site.start>>,
                              !.phase = "running"]
    /\ UNCHANGED <<jobs, waiting, nextId, uploads, builds, slots, req, resp, seen, mockBuild, quota, page, worker, project>>

\* five seconds have passed and the timer is set: the callback runs
Tick ==
    /\ beat.timer
    /\ beat' = tick(beat)
    /\ UNCHANGED <<jobs, waiting, nextId, uploads, builds, slots, req, resp, seen, mockBuild, quota, page, worker, project>>

\* the subcommand returns: finally { stop() }
CommandReturns ==
    /\ beat.phase = "running"
    /\ beat' = [stop(beat) EXCEPT !.phase = "returned"]
    /\ UNCHANGED <<jobs, waiting, nextId, uploads, builds, slots, req, resp, seen, mockBuild, quota, page, worker, project>>

\* the subcommand throws: finally { stop() }, then the catch block returns
\* the result {success: false, error}
CommandThrows ==
    /\ beat.phase = "running"
    /\ beat' = [stop(beat) EXCEPT !.phase = "failed"]
    /\ UNCHANGED <<jobs, waiting, nextId, uploads, builds, slots, req, resp, seen, mockBuild, quota, page, worker, project>>

\* the next real message of the pipeline
NextMessage ==
    /\ beat.phase = "returned"
    /\ beat' = [beat EXCEPT !.sent = Append(@, beat.site.next), !.phase = "next"]
    /\ UNCHANGED <<jobs, waiting, nextId, uploads, builds, slots, req, resp, seen, mockBuild, quota, page, worker, project>>

\* ------------------------------------------------ analysis of the project
\* 'Analyzing project...': detectProjectType; the vite fix step follows when
\* the type is vite
Detect ==
    /\ project.detected.type = "none"
    /\ project' = [project EXCEPT
            !.detected = detectProjectType(project.root, project.reactScripts),
            !.repairStep =
                detectProjectType(project.root, project.reactScripts).type = "vite"]
    /\ UNCHANGED <<jobs, waiting, nextId, uploads, builds, slots, req, resp, seen, mockBuild, quota, page, worker, beat>>

\* fixViteProject(projectDir): by the pipeline's vite fix step, or by a caller
\* of the exported function
FixVite ==
    /\ project.runs < MaxFixRuns
    /\ project.repairStep \/ project.detected.type = "none"
    /\ project' = [fixViteProject(project) EXCEPT !.runs = @ + 1]
    /\ UNCHANGED <<jobs, waiting, nextId, uploads, builds, slots, req, resp, seen, mockBuild, quota, page, worker, beat>>

\* --------------------------- the status handler of a waiting job, by read
\* job.getState() answers 'waiting': getJobStatus goes on to the queue reads
StatusState ==
    /\ Quiet
    /\ req.op = "status"
    /\ req.pc = "getState"
    /\ LiveState(req.task) = "waiting"
    /\ req' = [req EXCEPT !.pc = "getWaiting", !.steps = 0]
    /\ UNCHANGED <<jobs, waiting, nextId, uploads, builds, slots, resp, seen, mockBuild, quota, page, worker, beat, project>>

\* getJobPosition: queue.getWaiting(0, 100) and findIndex
StatusPosition ==
    /\ Quiet
    /\ req.op = "status"
    /\ req.pc = "getWaiting"
    /\ req' = [req EXCEPT !.pc = "getCounts", !.steps = 0,
                          !.position = getJobPosition(req.task)]
    /\ UNCHANGED <<jobs, waiting, nextId, uploads, builds, slots, resp, seen, mockBuild, quota, page, worker, beat, project>>

\* getQueueStats: getWaitingCount and getActiveCount, then the reply with
\* queuePosition: position || 1 and queueTotal: waiting + active
StatusCounts ==
    /\ Quiet
    /\ req.op = "status"
    /\ req.pc = "getCounts"
    /\ resp' = [StatusResponse(req.task,
                    [getJobStatus(req.task, req.snap, "waiting") EXCEPT
                        !.queuePosition = IF req.position = 0 THEN 1
                                          ELSE req.position])
                    EXCEPT !.prev = seen[req.task]]
    /\ req' = IdleReq
    /\ UNCHANGED <<jobs, waiting, nextId, uploads, builds, slots, seen, mockBuild, quota, page, worker, beat, project>>

\* ------------------------------------------------------------ specification
\* a step of a build of kind html or zip, or of a mock build
BuildStep(s) ==
    \/ Lease(s)
    \/ CheckUpload(s)
    \/ PrepareWorkspace(s)
    \/ RunCommand(s)
    \/ FileOps(s)
    \/ Note(s)
    \/ WebContent(s)
    \/ Gradle(s)
    \/ ExportApk(s)
    \/ Finish(s)
    \/ MockSleep(s)
    \/ MockCopy(s)

WorkerStep(s) ==
    \/ BuildStep(s)
    \/ UnknownKind(s)

Admission ==
    \/ \E t \in TaskIds, type \in AllTypes, a \in AppNames : AddBuildJob(t, type, a)
    \/ \E type \in BuildTypes, a \in AppNames : PostBuild(type, a)

Delete ==
    \/ \E t \in TaskIds : DeleteBegin(t)
    \/ DeleteRemove
    \/ DeleteCleanup

Sweeper ==
    \/ TimePasses
    \/ cleanupOldBuilds

\* the queue and the worker under clients that submit and delete builds
Next ==
    \/ \E s \in Slots : WorkerStep(s)
    \/ Admission
    \/ Delete
    \/ Deliver

Spec == Init /\ [][Next]_vars

\* the worker under clients that submit builds through the routes (so every
\* job is of kind html or zip), ask for the status and download
ReadNext ==
    \/ \E s \in Slots : BuildStep(s)
    \/ \E type \in BuildTypes, a \in AppNames : PostBuild(type, a)
    \/ \E t \in TaskIds : BeginRead("status", t)
    \/ \E t \in TaskIds : BeginRead("download", t)
    \/ StatusRespond
    \/ DownloadRespond
    \/ Deliver

ReadSpec == Init /\ [][ReadNext]_vars

\* the worker under clients that submit builds through the routes, one of
\* them polling the status of task PollTask and remembering what it saw
PollNext ==
    \/ \E s \in Slots : BuildStep(s)
    \/ \E type \in BuildTypes, a \in AppNames : PostBuild(type, a)
    \/ BeginRead("status", PollTask)
    \/ StatusRespond
    \/ PollDeliver

PollSpec == Init /\ [][PollNext]_vars

\* the worker and the sweeper under clients that submit builds, one of them
\* asking for the status of task PollTask
SweepNext ==
    \/ \E s \in Slots : BuildStep(s)
    \/ \E type \in BuildTypes, a \in AppNames : PostBuild(type, a)
    \/ Sweeper
    \/ BeginRead("status", PollTask)
    \/ StatusRespond
    \/ Deliver

SweepSpec == Init /\ [][SweepNext]_vars

\* the API with rate limiting enabled and the worker in mock mode, under
\* clients of several origins that submit, poll, download and delete
RateInit ==
    /\ jobs = [t \in TaskIds |-> NoJob]
    /\ waiting = <<>>
    /\ nextId = 1
    /\ uploads = {}
    /\ builds = <<>>
    /\ slots = [s \in Slots |-> IdleSlot]
    /\ req = IdleReq
    /\ resp = NoResp
    /\ seen = [t \in TaskIds |-> Undefined]
    /\ mockBuild = TRUE
    /\ quota = NoQuota
    /\ page = NoPage
    /\ worker = "running"
    /\ beat = NoBeat
    /\ project = NoProject

MockStep(s) ==
    \/ Lease(s)
    \/ MockSleep(s)
    \/ MockCopy(s)

RateNext ==
    \/ \E type \in BuildTypes, o \in Origins, bearer \in BOOLEAN, file \in Files,
          a \in AppNames : PostUpload(type, o, bearer, file, a)
    \/ \E type \in BuildTypes, k \in ClientKeys : WindowExpires(type, k)
    \/ \E s \in Slots : MockStep(s)
    \/ \E t \in TaskIds : BeginRead("status", t)
    \/ \E t \in TaskIds : BeginRead("download", t)
    \/ StatusRespond
    \/ DownloadRespond
    \/ Delete
    \/ \E route \in {"health", "api"} : GetInfo(route)
    \/ Deliver

RateSpec == RateInit /\ [][RateNext]_vars

\* the download route on one finished build whose artifact has any of the
\* names a build can give it: <appName>.apk, or <appName>--<taskId>.apk with
\* any task id nanoid can generate (here up to MaxIdLen symbols)
IdAlphabet == {"a", "7", "_", "-"}
IdStrings == UNION {[1..n -> IdAlphabet] : n \in 1..MaxIdLen}
ArtifactAppNames == AppNames \cup {<<"D", "-", "-", "7">>}
ArtifactNames(appName) ==
    {appName \o ApkExt}
        \cup {appName \o <<"-", "-">> \o id \o ApkExt : id \in IdStrings}
NameInit ==
    /\ \E appName \in ArtifactAppNames : \E name \in ArtifactNames(appName) :
        /\ jobs = [t \in TaskIds |->
                    IF t = 1
                    THEN [NoJob EXCEPT !.state = "completed", !.type = "zip",
                                       !.appName = appName, !.percent = 100,
                                       !.rvSet = TRUE, !.success = TRUE,
                                       !.apkPath = name]
                    ELSE NoJob]
        /\ builds = FsPut(<<>>, name, FileEntry(1))
    /\ waiting = <<>>
    /\ nextId = 2
    /\ uploads = {1}
    /\ slots = [s \in Slots |-> IdleSlot]
    /\ req = IdleReq
    /\ resp = NoResp
    /\ seen = [t \in TaskIds |-> Undefined]
    /\ mockBuild \in BOOLEAN
    /\ quota = NoQuota
    /\ page = NoPage
    /\ worker = "running"
    /\ beat = NoBeat
    /\ project = NoProject

NameNext ==
    \/ BeginRead("download", 1)
    \/ DownloadRespond
    \/ Deliver

NameSpec == NameInit /\ [][NameNext]_vars

\* one html build of a job whose appName is any string over NameAlphabet
\* (a capital, a small letter, a digit, two special characters, a non-ASCII
\* letter written U+00E9) of up to MaxNameLen characters, the empty one
\* included, queued without an appId
NameAlphabet == {"D", "a", "7", "!", ".", "U+00E9"}
AnyNames == UNION {[1..n -> NameAlphabet] : n \in 0..MaxNameLen}
AppIdInit ==
    /\ \E X \in AnyNames :
        jobs = [t \in TaskIds |-> IF t = 1 THEN NewJob("html", X) ELSE NoJob]
    /\ waiting = <<1>>
    /\ nextId = 2
    /\ uploads = {1}
    /\ builds = <<>>
    /\ slots = [s \in Slots |-> IdleSlot]
    /\ req = IdleReq
    /\ resp = NoResp
    /\ seen = [t \in TaskIds |-> Undefined]
    /\ mockBuild = FALSE
    /\ quota = NoQuota
    /\ page = NoPage
    /\ worker = "running"
    /\ beat = NoBeat
    /\ project = NoProject

HtmlStep(s) ==
    \/ Lease(s)
    \/ CheckUpload(s)
    \/ PrepareWorkspace(s)
    \/ RunCommand(s)
    \/ Note(s)
    \/ WebContent(s)
    \/ Gradle(s)
    \/ ExportApk(s)
    \/ Finish(s)

AppIdNext == \E s \in Slots : HtmlStep(s)

AppIdSpec == AppIdInit /\ [][AppIdNext]_vars

\* prepareHtmlForCordova applied, and applied again, to any document of up to
\* MaxHtmlLen pieces
Documents == UNION {[1..n -> Pieces] : n \in 0..MaxHtmlLen}
HtmlInit ==
    /\ jobs = [t \in TaskIds |-> NoJob]
    /\ waiting = <<>>
    /\ nextId = 1
    /\ uploads = {}
    /\ builds = <<>>
    /\ slots = [s \in Slots |-> IdleSlot]
    /\ req = IdleReq
    /\ resp = NoResp
    /\ seen = [t \in TaskIds |-> Undefined]
    /\ mockBuild = FALSE
    /\ quota = NoQuota
    /\ \E H \in Documents : page = [html |-> H, prepared |-> 0]
    /\ worker = "running"
    /\ beat = NoBeat
    /\ project = NoProject

HtmlNext == Prepare

HtmlSpec == HtmlInit /\ [][HtmlNext]_vars

\* a running worker under clients that submit builds of one app name, one of
\* them polling the status of task PollTask. The worker is running: a slot
\* that can take a step again and again takes it (every await of a build
\* resolves, every external command ends); a request handler that has
\* started answers, and an answer reaches its client.
LiveNext ==
    \/ \E s \in Slots : BuildStep(s)
    \/ \E type \in BuildTypes : PostBuild(type, <<"D">>)
    \/ BeginRead("status", PollTask)
    \/ StatusRespond
    \/ Deliver

LiveSpec ==
    /\ Init
    /\ [][LiveNext]_vars
    /\ \A s \in Slots : SF_vars(BuildStep(s))
    /\ WF_vars(StatusRespond)
    /\ WF_vars(Deliver)

\* a worker that is sent a termination signal at any moment, under clients
\* that submit builds of one app name; the builds in flight go on as in
\* LiveSpec and shutdown continues once worker.close() can resolve
ShutdownNext ==
    \/ \E s \in Slots : BuildStep(s)
    \/ \E type \in BuildTypes : PostBuild(type, <<"D">>)
    \/ Deliver
    \/ Signal
    \/ Exit

ShutdownSpec ==
    /\ Init
    /\ [][ShutdownNext]_vars
    /\ \A s \in Slots : WF_vars(BuildStep(s))
    /\ WF_vars(Deliver)
    /\ WF_vars(Exit)

\* the sweeper alone on a builds root holding an artifact and two workspaces
\* of any ages, the clock moving hour by hour
RetentionAges == 0 .. (FILE_RETENTION_HOURS + 1)
RetentionInit ==
    /\ jobs = [t \in TaskIds |-> NoJob]
    /\ waiting = <<>>
    /\ nextId = 1
    /\ uploads = {}
    /\ slots = [s \in Slots |-> IdleSlot]
    /\ req = IdleReq
    /\ resp = NoResp
    /\ seen = [t \in TaskIds |-> Undefined]
    /\ mockBuild \in BOOLEAN
    /\ quota = NoQuota
    /\ page = NoPage
    /\ worker = "running"
    /\ beat = NoBeat
    /\ project = NoProject
    /\ \E a, b, c \in RetentionAges :
        builds = FsPut(FsPut(FsPut(<<>>,
                    HtmlApkName(<<"D">>), [FileEntry(0) EXCEPT !.age = a]),
                    HtmlWorkDir(<<"D">>), [EmptyDir EXCEPT !.age = b]),
                    ZipWorkDir(<<"D">>), [EmptyDir EXCEPT !.age = c])

RetentionNext ==
    \/ HourPasses
    \/ cleanupOldBuilds

RetentionSpec == RetentionInit /\ [][RetentionNext]_vars

\* ------------------------------------------------------------------ claims
\* how many times task t is in the waiting list, and in how many slots
Occurrences(list, t) == Len(SelectSeq(list, LAMBDA x : x = t))
SlotsRunning(t) == Cardinality({s \in Slots : slots[s].task = t})
Terminal == {"completed", "failed"}

\* C1: the queue holds at most one job per taskId: a task id is in the waiting
\* list exactly once while its job waits and never otherwise, and addBuildJob
\* with the id of a job that is already in the queue leaves every job and the
\* waiting list as they were.
C1_OneJobPerTaskId ==
    /\ [](\A t \in TaskIds :
            Occurrences(waiting, t) = IF jobs[t].state = "waiting" THEN 1 ELSE 0)
    /\ [][\A t \in TaskIds :
            (resp'.op = "add" /\ resp'.task = t /\ jobs[t].state # "absent")
                => (jobs' = jobs /\ waiting' = waiting)]_vars

\* addBuildJob has just answered for a task whose job had already completed
C1_Witness ==
    /\ resp.op = "add"
    /\ jobs[resp.task].state = "completed"
    /\ jobs[resp.task].success

\* C2: a job is executed at most once: while active it occupies exactly one
\* worker slot, otherwise none; it is started at most once (attempts is 1), and
\* a job that completed or failed is not in the waiting list again.
C2_AtMostOnce ==
    \A t \in TaskIds :
        /\ SlotsRunning(t) = IF jobs[t].state = "active" THEN 1 ELSE 0
        /\ jobs[t].attemptsMade <= 1
        /\ jobs[t].state \in Terminal =>
                jobs[t].attemptsMade = 1 /\ Occurrences(waiting, t) = 0

\* one job failed after its one attempt while the other slot runs another job
C2_Witness ==
    \E t, u \in TaskIds :
        /\ jobs[t].state = "failed" /\ jobs[t].attemptsMade = 1
        /\ jobs[u].state = "active" /\ SlotsRunning(u) = 1

\* the moves of a job's queue state
C3_Edges ==
    {<<"absent", "waiting">>, <<"waiting", "active">>, <<"active", "completed">>,
     <<"active", "failed">>, <<"waiting", "absent">>, <<"completed", "absent">>,
     <<"failed", "absent">>}

\* C3: the queue state of a job moves only absent -> waiting -> active ->
\* completed | failed; nothing leads back to waiting, and a completed or failed
\* job changes state only by being removed (removal takes waiting, completed
\* and failed jobs, never an active one).
C3_StateMachine ==
    [][\A t \in TaskIds :
        jobs'[t].state # jobs[t].state =>
            <<jobs[t].state, jobs'[t].state>> \in C3_Edges]_vars

\* a failed job and a completed job sit in the queue, nothing running
C3_Witness ==
    \E t, u \in TaskIds :
        /\ jobs[t].state = "failed"
        /\ jobs[u].state = "completed"
        /\ \A s \in Slots : slots[s] = IdleSlot

\* C4: processBuildJob never throws, whatever the job (MOCK_BUILD and an
\* unknown kind included): no job is ever moved to failed by the queue, and a
\* job that completed without success carries the text of its error.
C4_NeverThrows ==
    \A t \in TaskIds :
        /\ jobs[t].state # "failed"
        /\ (jobs[t].state = "completed" /\ ~jobs[t].success) => jobs[t].error # ""

\* C5: a status response says "completed" only for a job whose result has
\* success = true, and for a completed job whose result has success = false it
\* says "failed", with the result's error text and no downloadUrl.
C5_CompletedMeansSuccess ==
    (resp.op = "status" /\ resp.code = 200) =>
        LET j == jobs[resp.task] IN
        /\ resp.status = "completed" => (j.state = "completed" /\ j.rvSet /\ j.success)
        /\ (j.state = "completed" /\ ~j.success) =>
                (resp.status = "failed" /\ resp.error = j.error /\ ~resp.downloadUrl)

\* C6: while a task is reported active, the percent of a status response is
\* never below the percent of the response the poller got before it.
C6_PercentMonotonic ==
    (resp.op = "status" /\ resp.status = "active" /\ resp.prev # Undefined) =>
        resp.percent >= resp.prev

\* the answer GET download owes for task t, from the job and the builds root
\* as they are when it answers
C7_Owed(t) ==
    LET j == jobs[t] IN
    IF j.state = "absent" THEN 404
    ELSE IF j.state # "completed" \/ ~(j.rvSet /\ j.success /\ j.apkPath # <<>>) THEN 400
    ELSE IF ~PathExists(builds, j.apkPath) THEN 404
    ELSE 200

\* C7: GET download answers 200 exactly when the job exists, is completed,
\* its result has success = true with an apkPath and the file exists; 404 when
\* the job is missing or the file is gone; 400 when the job has not completed
\* or its build failed.
C7_DownloadAnswer ==
    resp.op = "download" => resp.code = C7_Owed(resp.task)

\* a DELETE request for task t is taken up by its handler
DeleteArrives(t) ==
    /\ req = IdleReq
    /\ resp = NoResp
    /\ \/ resp'.op = "delete" /\ resp'.task = t
       \/ req'.op = "delete" /\ req'.task = t

\* the handler of a DELETE request for task t takes a step
DeleteStep(t) ==
    \/ DeleteArrives(t)
    \/ /\ req.op = "delete"
       /\ req.task = t
       /\ resp'.op = "delete" \/ req'.pc # req.pc

\* C8: DELETE on a job that is active answers 400; no step of a DELETE handler
\* changes an active job, the waiting list, the slots, the uploads or the
\* builds root; and the build goes on to a terminal state: whenever the API is
\* quiet its slot has a step to take, and each step of the slot moves the build
\* forward in its pipeline or ends it with the job completed or failed.
C8_DeleteActiveRefused ==
    /\ [][\A t \in TaskIds :
            /\ (DeleteArrives(t) /\ jobs[t].state = "active")
                    => (resp'.op = "delete" /\ resp'.code = 400)
            /\ (DeleteStep(t) /\ jobs[t].state = "active")
                    => UNCHANGED <<jobs, waiting, slots, uploads, builds>>]_vars
    /\ [](\A s \in Slots :
            (slots[s].task # 0 /\ MayInterleave) => ENABLED WorkerStep(s))
    /\ [][\A s \in Slots :
            (slots[s].task # 0 /\ slots'[s] # slots[s]) =>
                \/ slots'[s].task = slots[s].task /\ slots'[s].pc > slots[s].pc
                \/ slots'[s] = IdleSlot /\ jobs'[slots[s].task].state \in Terminal]_vars

\* DELETE has just been refused with 400 for a job that is running, its upload
\* and its workspace in place
C8_Witness ==
    /\ resp.op = "delete"
    /\ resp.code = 400
    /\ jobs[resp.task].state = "active"
    /\ SlotsRunning(resp.task) = 1
    /\ resp.task \in uploads
    /\ PathExists(builds, WorkDirOf(jobs[resp.task]))

\* C9: a DELETE that succeeds leaves no queue entry, no upload directory and
\* no artifact file of the job.
C9_DeleteRemovesAll ==
    [][(req.op = "delete" /\ resp'.op = "delete" /\ resp'.code = 200) =>
        /\ jobs'[req.task].state = "absent"
        /\ req.task \notin uploads'
        /\ req.snap.apkPath # <<>> => ~PathExists(builds', req.snap.apkPath)]_vars

\* C10: two zip builds of the same appName with different task ids that both
\* finish with success = true leave two distinct artifact files, each holding
\* the output of its own build.
C10_SameNameZipBuilds ==
    \A t, u \in TaskIds :
        (/\ ~mockBuild
         /\ t # u
         /\ jobs[t].type = "zip" /\ jobs[u].type = "zip"
         /\ jobs[t].appName = jobs[u].appName
         /\ jobs[t].state = "completed" /\ jobs[t].success
         /\ jobs[u].state = "completed" /\ jobs[u].success) =>
            /\ jobs[t].apkPath # jobs[u].apkPath
            /\ PathExists(builds, jobs[t].apkPath)
            /\ builds[jobs[t].apkPath].apk = t

\* C11: the file at result.apkPath of a job completed with success = true
\* stays on disk, with its content, as long as the job is in the queue, unless
\* the sweeper removes it (the entry was older than the retention window).
C11_ArtifactStays ==
    [][\A t \in TaskIds :
        (/\ jobs[t].state = "completed"
         /\ jobs[t].success
         /\ jobs'[t] = jobs[t]
         /\ PathExists(builds, jobs[t].apkPath)) =>
            \/ /\ PathExists(builds', jobs[t].apkPath)
               /\ builds'[jobs[t].apkPath].apk = builds[jobs[t].apkPath].apk
            \/ /\ builds[jobs[t].apkPath].age > FILE_RETENTION_HOURS
               /\ ~PathExists(builds', jobs[t].apkPath)]_vars

\* C12: when the artifact of a job completed with success = true is no longer
\* on disk, a GET status for the task does not report a completed build with
\* a downloadUrl.
C12_ExpiredAfterSweep ==
    (/\ resp.op = "status"
     /\ jobs[resp.task].state = "completed"
     /\ jobs[resp.task].success
     /\ ~PathExists(builds, jobs[resp.task].apkPath)) =>
        ~(resp.status = "completed" /\ resp.downloadUrl)

C14_UploadSwept ==
    \A t \in TaskIds :
        (/\ jobs[t].state = "completed"
         /\ jobs[t].success
         /\ ~PathExists(builds, jobs[t].apkPath)) =>
            t \notin uploads

\* C15: with rate limiting enabled, a client key never has more than
\* RateLimitMax POSTs to /api/build/html or /api/build/zip, taken together,
\* counted as admitted to a build handler within the running window.
C15_AtMostMPerClient ==
    \A k \in ClientKeys : quota["html"][k] + quota["zip"][k] <= RateLimitMax

\* C16: only the two POST build routes are rate limited: a request to GET
\* status, GET download, DELETE, /health or /api is never answered 429 and
\* a count of the limiter only grows by a POST to the build route it is for.
C16_OnlyBuildRoutesLimited ==
    [][/\ resp'.code = 429 => resp'.op \in BuildTypes
       /\ \A r \in Routes, k \in ClientKeys :
            quota'[r][k] > quota[r][k] =>
                /\ r \in BuildTypes
                /\ resp'.op = "post"
                /\ resp'.request.route = r
                /\ resp'.request.client = k]_vars

\* a client whose quota is used up on both build routes downloads an artifact
C16_Witness ==
    /\ resp.op = "download"
    /\ resp.code = 200
    /\ \E k \in ClientKeys :
        quota["html"][k] >= RateLimitMax /\ quota["zip"][k] >= RateLimitMax

\* defaultRateLimitConfig.authenticated.max
AuthenticatedMax == 20

\* C17: the capacity depends on authentication: a request carrying a bearer
\* token is refused with 429 only after AuthenticatedMax admitted submissions
\* of its key in the window, an anonymous one only after RateLimitMax.
C17_CapacityByAuthentication ==
    resp.code = 429 =>
        quota[resp.op][resp.request.client] >=
            IF resp.request.bearer THEN AuthenticatedMax ELSE RateLimitMax

\* the two spellings of one letter
C18_SameLetter(a, b) ==
    \/ a = b
    \/ <<a, b>> \in {<<"H", "h">>, <<"T", "t">>, <<"M", "m">>, <<"L", "l">>,
                     <<"Z", "z">>, <<"I", "i">>, <<"P", "p">>}
C18_EndsIgnoringCase(name, suffix) ==
    /\ Len(name) >= Len(suffix)
    /\ \A i \in 1..Len(suffix) :
        C18_SameLetter(name[Len(name) - Len(suffix) + i], suffix[i])
C18_Acceptable(route, file) ==
    /\ file.present
    /\ IF route = "html"
       THEN \/ C18_EndsIgnoringCase(file.filename, <<".", "h", "t", "m", "l">>)
            \/ C18_EndsIgnoringCase(file.filename, <<".", "h", "t", "m">>)
       ELSE C18_EndsIgnoringCase(file.filename, <<".", "z", "i", "p">>)

\* C18: a POST to a build route that passes the limiter is answered 400
\* exactly when it has no `file` part or its file name does not end, case
\* ignored, in .html/.htm (html route) or .zip (zip route); the rejection
\* enqueues no job and writes nothing under the uploads root.
C18_BadUploadRejected ==
    [][resp'.op = "post" =>
        IF C18_Acceptable(resp'.request.route, resp'.request.file)
        THEN resp'.code = 200
        ELSE /\ resp'.code = 400
             /\ UNCHANGED <<jobs, waiting, uploads, nextId>>]_vars

\* an upload whose name has the wrong extension has just been refused while
\* a job is in the queue
C18_Witness ==
    /\ resp.op = "post"
    /\ resp.code = 400
    /\ resp.request.file.present
    /\ waiting # <<>>

\* C19: the file name GET download offers for the artifact of a finished
\* build is <appName>.apk, whether the artifact is <appName>--<taskId>.apk
\* (for any task id over the URL-safe alphabet) or <appName>.apk.
C19_DownloadName ==
    (resp.op = "download" /\ resp.code = 200) =>
        resp.filename = jobs[resp.task].appName \o ApkExt

\* C20: a build of an upload that carried no appId prepares its project with
\* the package identifier derived from the task's appName, generateAppId(appName),
\* whatever the build kind.
C20_DerivedAppId ==
    \A n \in DOMAIN builds : \A t \in TaskIds :
        (/\ builds[n].kind = "dir"
         /\ builds[n].proj = t
         /\ jobs[t].state # "absent") =>
            builds[n].appId = generateAppId(jobs[t].appName)

\* "com.vibecoding." followed by dot-separated segments, each non-empty,
\* starting with a letter and made of small letters and digits
C21_WellFormed(id) ==
    LET n == Len(ComVibecoding)
        rest == SubSeq(id, n + 1, Len(id))
    IN  /\ Len(id) > n
        /\ SubSeq(id, 1, n) = ComVibecoding
        /\ rest[1] \in LowerLetters
        /\ rest[Len(rest)] # "."
        /\ \A i \in 1..Len(rest) :
            /\ rest[i] \in LowerAlnum \cup {"."}
            /\ (i > 1 /\ rest[i - 1] = ".") => rest[i] \in LowerLetters
C21_NoLetterOrDigit(X) ==
    \A i \in 1..Len(X) : X[i] \notin {"D", "a", "7"}

C22_Idempotent ==
    [][page.prepared >= 1 => page'.html = page.html]_vars

\* the function has been applied twice to a document that had a head and a
\* closing body tag and none of the three tags
C22_Witness ==
    /\ page.prepared = 2
    /\ page.html = <<HeadTag, CspMeta, ViewportMeta, CordovaScript, BodyEnd>>

C23_Count(html, piece) == Cardinality({i \in 1..Len(html) : html[i] = piece})

\* C23: whatever the document (with or without a head element, with or
\* without a closing body tag), the output of prepareHtmlForCordova holds
\* exactly one viewport meta tag, exactly one Content-Security-Policy meta tag
\* and exactly one cordova.js script tag.
C23_ExactlyOneOfEach ==
    page.prepared >= 1 =>
        /\ C23_Count(page.html, ViewportMeta) = 1
        /\ C23_Count(page.html, CspMeta) = 1
        /\ C23_Count(page.html, CordovaScript) = 1

\* the number of waiting jobs the worker will lease before t
C24_Ahead(t) ==
    Cardinality({i \in 1..Len(waiting) :
                    \E j \in (i + 1)..Len(waiting) : waiting[j] = t})

\* C24: for a waiting job GET status answers pending with queuePosition =
\* 1 + the number of waiting jobs that will be leased before it, and
\* queueTotal = the number of waiting jobs plus the number of active jobs.
C24_QueuePosition ==
    (/\ resp.op = "status"
     /\ resp.code = 200
     /\ jobs[resp.task].state = "waiting") =>
        /\ resp.status = "pending"
        /\ resp.queuePosition = 1 + C24_Ahead(resp.task)
        /\ resp.queueTotal =
             Len(waiting) + Cardinality({t \in TaskIds : jobs[t].state = "active"})

C26_GracefulShutdown ==
    /\ [][worker # "running" =>
            \A t \in TaskIds : jobs'[t].state = "active" => jobs[t].state = "active"]_vars
    /\ [][worker' = "exited" =>
            /\ \A s \in Slots : slots[s] = IdleSlot
            /\ \A t \in TaskIds : jobs[t].state # "active"]_vars
    /\ [](\A t \in TaskIds :
            jobs[t].state = "completed" => jobs[t].rvSet)
    /\ \A t \in TaskIds :
        (worker = "closing" /\ jobs[t].state = "active")
            ~> (worker = "closing" /\ jobs[t].state \in Terminal)
    /\ (worker = "closing") ~> (worker = "exited")

\* the worker has exited with one job finished and one never leased
C26_Witness ==
    /\ worker = "exited"
    /\ \E t \in TaskIds : jobs[t].state = "completed" /\ jobs[t].attemptsMade = 1
    /\ \E t \in TaskIds : jobs[t].state = "waiting"

\* C27: a DELETE whose job is active when the handler comes to remove it,
\* also when the worker leased the job after the handler's state check, is
\* answered 400 and leaves the job as it is; a DELETE of a job that existed
\* when the handler looked it up is answered 200 or 400 and nothing else.
C27_DeleteRaceRefused ==
    [][(req.op = "delete" /\ resp'.op = "delete") =>
        /\ resp'.code \in {200, 400}
        /\ jobs[req.task].state = "active" =>
                (resp'.code = 400 /\ jobs' = jobs)]_vars

\* C28: the directory a build removes and recreates at its start is never
\* the workspace of another build that is running at that moment, whatever
\* the kinds and the app names of the two.
C28_OwnWorkspace ==
    [][\A s, o \in Slots :
        (/\ s # o
         /\ slots[s].task # 0
         /\ slots[o].task # 0
         /\ ~mockBuild
         /\ CurJob(s).type \in BuildTypes
         /\ CurJob(o).type \in BuildTypes
         /\ CurStage(s).kind = "workdir"
         /\ slots'[s] # slots[s]) =>
            WorkDirOf(CurJob(s)) # WorkDirOf(CurJob(o))]_vars

\* C29: a sweeper run removes no workspace directory that a build which is
\* running at that moment has prepared, however long the build has been
\* running.
C29_SweeperSparesRunningBuilds ==
    [][(/\ jobs' = jobs
        /\ slots' = slots
        /\ DOMAIN builds' # DOMAIN builds
        /\ DOMAIN builds' \subseteq DOMAIN builds) =>
            \A s \in Slots :
                (/\ slots[s].task # 0
                 /\ ~mockBuild
                 /\ PathExists(builds, WorkDirOf(CurJob(s)))
                 /\ builds[WorkDirOf(CurJob(s))].proj = slots[s].task) =>
                    PathExists(builds', WorkDirOf(CurJob(s)))]_vars

\* the worker while uploads are admitted, the handler taken await by await
AdmitNext ==
    \/ \E s \in Slots : BuildStep(s)
    \/ \E type \in BuildTypes, a \in AppNames : ReceiveUpload(type, a)
    \/ SaveUpload
    \/ SaveFails
    \/ Enqueue
    \/ Reply
    \/ Deliver

AdmitSpec == Init /\ [][AdmitNext]_vars

\* C30: a job that is in the queue, waiting or leased or ended, has its upload
\* on disk under the uploads directory of its task id, so no worker slot holds
\* a job without its upload; and the response {taskId, status: "pending"} is
\* sent only when the job is in the queue.
C30_PersistBeforeEnqueue ==
    /\ \A t \in TaskIds : jobs[t].state # "absent" => t \in uploads
    /\ \A s \in Slots : slots[s].task # 0 => slots[s].task \in uploads
    /\ (resp.op = "post" /\ resp.status = "pending") =>
            jobs[resp.task].state # "absent"

\* the worker leased the job before the handler had replied
C30_Witness ==
    /\ resp.op = "post"
    /\ resp.status = "pending"
    /\ jobs[resp.task].state = "active"
    /\ resp.task \in uploads
    /\ \E s \in Slots : slots[s].task = resp.task

C31_Artifacts(fs) == {n \in DOMAIN fs : fs[n].kind = "file"}
C31_Returns(s) ==
    /\ slots[s].task # 0
    /\ slots'[s] = IdleSlot
    /\ jobs'[slots[s].task].state = "completed"

HeartbeatNext ==
    \/ \E site \in Sites : StartHeartbeat(site)
    \/ Tick
    \/ CommandReturns
    \/ CommandThrows
    \/ NextMessage

HeartbeatSpec == Init /\ [][HeartbeatNext]_vars

\* C32: a heartbeat on one of the bands the zip pipeline declares emits at
\* most 10 ticks, however long its subcommand runs.
C32_AtMostTenTicks == beat.site.declared => beat.ticks <= 10

\* C33: every tick of a heartbeat carries a percent strictly between the
\* band's start and end, the ticks of one heartbeat are strictly increasing,
\* and on the bands the pipeline declares every tick is below the percent of
\* the real message that follows the subcommand.
C33_TicksInsideBand ==
    \A i \in 2..(beat.ticks + 1) :
        /\ beat.site.start < beat.sent[i]
        /\ beat.sent[i] < beat.site.end
        /\ beat.sent[i - 1] < beat.sent[i]
        /\ beat.site.declared => beat.sent[i] < beat.site.next

\* the gradle heartbeat has ticked up to its last percent and the next real
\* message has been sent
C33_Witness ==
    /\ beat.site = GradleSite
    /\ beat.phase = "next"
    /\ beat.ticks >= 1
    /\ ~MayTick(beat)
    /\ beat.sent[Len(beat.sent)] = 95
    /\ beat.sent[Len(beat.sent) - 1] = 92

\* C34: once the subcommand has returned or thrown the timer is cleared, and
\* from then on no tick is emitted: the only percent sent after it is the
\* next real message.
C34_NoTickAfterStop ==
    /\ [](beat.phase \in {"returned", "failed", "next"} => ~beat.timer)
    /\ [][beat.phase \in {"returned", "failed", "next"} =>
            /\ beat'.ticks = beat.ticks
            /\ beat'.sent # beat.sent =>
                    beat'.sent = Append(beat.sent, beat.site.next)]_vars

\* the subcommand threw after the heartbeat had ticked
C34_Witness ==
    /\ beat.phase = "failed"
    /\ beat.ticks >= 1
    /\ ~beat.timer
    /\ MayTick(beat)

\* every project: up to MaxConfigFiles config files in its root, any manifest,
\* any vite config text
Projects ==
    {[NoProject EXCEPT !.root = r, !.reactScripts = rs, !.viteConfig = c,
                       !.hasLegacyPlugin = lp] :
        r \in {x \in SUBSET (ViteConfigs \cup NextConfigs) :
                    Cardinality(x) <= MaxConfigFiles},
        rs \in BOOLEAN, c \in ConfigTexts, lp \in BOOLEAN}

ProjectInit ==
    /\ jobs = [t \in TaskIds |-> NoJob]
    /\ waiting = <<>>
    /\ nextId = 1
    /\ uploads = {}
    /\ builds = <<>>
    /\ slots = [s \in Slots |-> IdleSlot]
    /\ req = IdleReq
    /\ resp = NoResp
    /\ seen = [t \in TaskIds |-> Undefined]
    /\ mockBuild = FALSE
    /\ quota = NoQuota
    /\ page = NoPage
    /\ worker = "running"
    /\ beat = NoBeat
    /\ project \in Projects

ProjectNext ==
    \/ Detect
    \/ FixVite

ProjectSpec == ProjectInit /\ [][ProjectNext]_vars

C35_Table(root, reactScripts) ==
    IF root \cap ViteConfigs # {} THEN [type |-> "vite", buildDir |-> "dist"]
    ELSE IF root \cap NextConfigs # {} THEN [type |-> "nextjs", buildDir |-> "out"]
    ELSE IF reactScripts THEN [type |-> "cra", buildDir |-> "build"]
    ELSE [type |-> "unknown", buildDir |-> "dist"]

\* C35: a project that has been analysed is detected as the table says, the
\* first row that matches deciding: any of the four vite config names gives
\* vite with output directory dist and the auto-repair step, else a next
\* config gives nextjs/out, else react-scripts gives cra/build, else
\* unknown/dist.
C35_DetectionTable ==
    project.detected.type # "none" =>
        /\ project.detected = C35_Table(project.root, project.reactScripts)
        /\ project.repairStep = (project.root \cap ViteConfigs # {})

\* C36: fixViteProject run again on a vite project it has already repaired
\* writes no file, leaves the config and the manifest as they are, and returns
\* fixed = false with no changes.
C36_RepairIsNoOp ==
    [][(/\ project.runs >= 1
        /\ project'.runs = project.runs + 1
        /\ findViteConfig(project.root)) =>
            /\ project'.viteConfig = project.viteConfig
            /\ project'.hasLegacyPlugin = project.hasLegacyPlugin
            /\ project'.result = NoResult]_vars

\* C37: a download of task t that is answered with a file built from some
\* task's web content serves the web content of t itself.
C37_DownloadServesOwnArtifact ==
    (resp.op = "download" /\ resp.code = 200 /\ resp.content # 0) =>
        resp.content = resp.task

\* C38: a step of the DELETE handler of task t leaves every other job's queue
\* entry as it was and removes no workspace directory that an active build of
\* another task has prepared.
C38_DeleteAffectsOnlyItsTask ==
    [][(req.op = "delete" /\ req'.pc # req.pc) =>
        /\ \A o \in TaskIds \ {req.task} : jobs'[o] = jobs[o]
        /\ \A s \in Slots :
            (/\ slots[s].task # 0
             /\ slots[s].task # req.task
             /\ ~mockBuild
             /\ CurJob(s).type \in BuildTypes
             /\ PathExists(builds, WorkDirOf(CurJob(s)))
             /\ builds[WorkDirOf(CurJob(s))].proj = slots[s].task) =>
                PathExists(builds', WorkDirOf(CurJob(s)))]_vars

\* the worker under clients that submit builds and ask for the status, the
\* status handler of a waiting job taken read by read
QueueReadNext ==
    \/ \E s \in Slots : BuildStep(s)
    \/ \E type \in BuildTypes : PostBuild(type, <<"D">>)
    \/ \E t \in TaskIds : BeginRead("status", t)
    \/ StatusState
    \/ StatusPosition
    \/ StatusCounts
    \/ StatusRespond
    \/ Deliver

QueueReadSpec == Init /\ [][QueueReadNext]_vars

\* C39: a status response with status pending has
\* 1 <= queuePosition <= queueTotal.
C39_PositionWithinTotal ==
    (resp.op = "status" /\ resp.code = 200 /\ resp.status = "pending") =>
        /\ 1 <= resp.queuePosition
        /\ resp.queuePosition <= resp.queueTotal

\* the worker with its sweeper while the hours pass
ExpiryNext ==
    \/ \E s \in Slots : BuildStep(s)
    \/ \E type \in BuildTypes : PostBuild(type, <<"D">>)
    \/ HourPasses
    \/ cleanupOldBuilds
    \/ Deliver

ExpirySpec == Init /\ [][ExpiryNext]_vars

\* C40: a sweeper run that removes the artifact of a successfully completed
\* task runs no earlier than the task's expiresAt, createdAt plus the
\* retention hours.
C40_NotSweptBeforeExpiry ==
    [][\A t \in TaskIds :
        (/\ jobs' = jobs
         /\ slots' = slots
         /\ jobs[t].state = "completed"
         /\ jobs[t].success
         /\ PathExists(builds, jobs[t].apkPath)
         /\ ~PathExists(builds', jobs[t].apkPath)) => Expired(jobs[t])]_vars

\* the artifact of a successful build whose job was created before the
\* artifact was written has been swept
C40_Witness ==
    \E t \in TaskIds :
        /\ jobs[t].state = "completed"
        /\ jobs[t].success
        /\ jobs[t].type \in BuildTypes
        /\ ~mockBuild
        /\ ~PathExists(builds, jobs[t].apkPath)
        /\ Expired(jobs[t])

====
